---- MODULE Spec2Model ----
\* Interactive transaction construction (lightning/src/ln/interactivetxs.rs):
\* NegotiationContext, the typestate StateMachine and the
\* InteractiveTxConstructor driver, as a state machine.
\*
\* The specifications share the variables:
\*   SpecSM  drives the StateMachine with every one of its ten events
\*           (receive and send of each message), the way the constructor
\*           drives it: take the machine, call the method, store the new
\*           machine or NegotiationAborted(reason).
\*   Spec    is the InteractiveTxConstructor: new, then the five public
\*           receive calls, each followed by generate_message_send.
\*   SpecBuild starts the StateMachine one tx_complete before the end, on
\*           contexts drawn from bounded sets, and applies build_transaction.
\*   SpecReceive is SpecSM with the peer's changes and the holder's
\*           tx_complete only.
\*   SpecSerial applies generate_local_serial_id to bytes of the entropy source.
\*   SpecPeers is two InteractiveTxConstructors, an initiator and a
\*           non-initiator, that exchange the messages their calls return.
\*   SpecMirror drives two StateMachines side by side: one as SpecSM does, the
\*           other with the roles swapped, through the same events.
EXTENDS Integers, Sequences, FiniteSets, Bags, TLC

VARIABLES
    state_machine,          \* InteractiveTxConstructor.state_machine (StateMachine enum)
    inputs_to_contribute,   \* Vec<TxInputWithPrevOutput>, popped from the back
    outputs_to_contribute,  \* Vec<TxOut>, popped from the back
    is_initiator,           \* InteractiveTxConstructor.is_initiator
    origin,                 \* history: who added each entry of inputs / outputs
    last_event,             \* history: the last state-machine event driven
    prev_event,             \* history: the state-machine event before last_event
    last_from,              \* history: the state tag the last public call / event started in
    ret,                    \* history: what the last public call / event returned
    steps,                  \* history: number of public calls / events so far
    mirror,                 \* SpecMirror: the StateMachine of the same run with the roles swapped
    rand_bytes,             \* SpecSerial: the bytes get_secure_random_bytes() returns
    peer,                   \* SpecPeers: the InteractiveTxConstructor of the other node
    in_flight               \* SpecPeers: the returned messages not yet delivered, per receiver

vars == <<state_machine, inputs_to_contribute, outputs_to_contribute, is_initiator,
          origin, last_event, prev_event, last_from, ret, steps, mirror, rand_bytes,
          peer, in_flight>>

-----------------------------------------------------------------------------
(* Bounds of the model *)

\* Longest run of Spec, in public calls.
MaxSteps == 4
\* Longest run of SpecSM, in state-machine events.
MaxEvents == 3
\* Longest pending list handed to new.
MaxPending == 1
\* received_tx_add_*_count of the start state that follows a long exchange of
\* tx_add / tx_remove pairs (see InitNearLimit).
PreCount == 4094

-----------------------------------------------------------------------------
(* Program constants *)

MAX_RECEIVED_TX_ADD_INPUT_COUNT == 4096
MAX_RECEIVED_TX_ADD_OUTPUT_COUNT == 4096
MAX_INPUTS_OUTPUTS_COUNT == 252
MAX_STANDARD_TX_WEIGHT == 400000
WITNESS_SCALE_FACTOR == 4
INPUT_WEIGHT == (32 + 4 + 4) * WITNESS_SCALE_FACTOR
OUTPUT_WEIGHT == 8 * WITNESS_SCALE_FACTOR
U16 == 2^16

-----------------------------------------------------------------------------
(* 64-bit satoshi amounts.  TLC integers are 32 bits wide, so a u64 amount  *)
(* is the pair [hi, lo] standing for hi * 10^9 + lo.                        *)

LIMB == 10^9

Sats(n) == [hi |-> n \div LIMB, lo |-> n % LIMB]
SatAdd(a, b) ==
    LET l == a.lo + b.lo
    IN  [hi |-> a.hi + b.hi + (l \div LIMB), lo |-> l % LIMB]
SatLt(a, b) == a.hi < b.hi \/ (a.hi = b.hi /\ a.lo < b.lo)
\* a - b for a >= b
SatSub(a, b) ==
    IF a.lo >= b.lo THEN [hi |-> a.hi - b.hi, lo |-> a.lo - b.lo]
    ELSE [hi |-> a.hi - b.hi - 1, lo |-> a.lo + LIMB - b.lo]

\* 2,100,000,000,000,000
TOTAL_BITCOIN_SUPPLY_SATOSHIS == [hi |-> 2100000, lo |-> 0]

(* 32-bit sequence numbers as two 16-bit halves. *)
U32(hi, lo) == [hi |-> hi, lo |-> lo]
U32Geq(a, b) == a.hi > b.hi \/ (a.hi = b.hi /\ a.lo >= b.lo)
\* 0xFFFFFFFE
SEQ_LIMIT == U32(65535, 65534)
\* Sequence::ENABLE_RBF_NO_LOCKTIME = 0xFFFFFFFD
ENABLE_RBF_NO_LOCKTIME == U32(65535, 65533)

-----------------------------------------------------------------------------
(* Scripts, by kind.  The predicates and dust_value are rust-bitcoin's.     *)

\* "data_100k" is a script of 100,000 bytes that is no witness program
ScriptKinds == {"p2wpkh", "p2wsh", "p2tr", "witness_v2", "p2pkh", "data_100k"}

is_witness_program(s) == s \in {"p2wpkh", "p2wsh", "p2tr", "witness_v2"}
is_v0_p2wpkh(s) == s = "p2wpkh"
is_v0_p2wsh(s) == s = "p2wsh"
is_v1_p2tr(s) == s = "p2tr"
\* serialized length of the script in bytes
script_len(s) ==
    CASE s = "p2wpkh" -> 22
      [] s = "p2wsh" -> 34
      [] s = "p2tr" -> 34
      [] s = "witness_v2" -> 34
      [] s = "p2pkh" -> 25
      [] s = "data_100k" -> 100000
\* 3 sat per byte of (the output + the input that spends it)
dust_value(s) ==
    IF is_witness_program(s) THEN 3 * (67 + 8 + 1 + script_len(s))
    ELSE 3 * (148 + 8 + 1 + script_len(s))

-----------------------------------------------------------------------------
(* Small helpers on maps (HashMap) *)

MapInsert(m, k, v) == [x \in (DOMAIN m) \cup {k} |-> IF x = k THEN v ELSE m[x]]
MapRemove(m, k) == [x \in (DOMAIN m) \ {k} |-> m[x]]
EmptyMap == [x \in {} |-> 0]

RECURSIVE SumOver(_, _)
\* sum of the amounts m[k] for the keys k in ks (.sum()), taken by halves of
\* the key range so that the evaluation stays shallow on hundreds of entries
SumOver(m, ks) ==
    IF ks = {} THEN Sats(0)
    ELSE LET lo == CHOOSE x \in ks : \A y \in ks : x <= y
             hi == CHOOSE x \in ks : \A y \in ks : y <= x
             mid == (lo + hi) \div 2
         IN  IF lo = hi THEN m[lo]
             ELSE SatAdd(SumOver(m, {x \in ks : x <= mid}),
                         SumOver(m, {x \in ks : x > mid}))

\* the multiset of the values of a map (HashMap::values() in no particular order)
ValuesBag(m) ==
    LET vals == {m[k] : k \in DOMAIN m}
    IN  [v \in vals |-> Cardinality({k \in DOMAIN m : m[k] = v})]

-----------------------------------------------------------------------------
(* Results *)

Ok(v) == [kind |-> "Ok", val |-> v, err |-> "None"]
Err(reason) == [kind |-> "Err", val |-> "None", err |-> reason]
\* a panic unwinds through the caller: no value, no AbortReason
Panic == [kind |-> "Panic", val |-> "None", err |-> "None"]

AbortReasons == {
    "CounterpartyAborted", "UnexpectedCounterpartyMessage", "InputsNotConfirmed",
    "ReceivedTooManyTxAddInputs", "ReceivedTooManyTxAddOutputs",
    "IncorrectInputSequenceValue", "IncorrectSerialIdParity", "SerialIdUnknown",
    "DuplicateSerialId", "PrevTxOutInvalid", "ExceededMaximumSatsAllowed",
    "ExceededNumberOfInputsOrOutputs", "InvalidTransactionState", "TransactionTooLarge",
    "ExceededDustLimit", "InvalidOutputScript", "InsufficientFees", "OutputsExceedInputs"}

-----------------------------------------------------------------------------
(* NegotiationContext *)

is_valid_for_initiator(serial_id) == serial_id % 2 = 0
\* mutant: the parity asked of the peer does not depend on the holder's role
is_valid_counterparty_serial_id_IgnoresRole(ctx, serial_id) ==
    ~is_valid_for_initiator(serial_id)

\* mutant: the parity test taken for the holder's own role
is_valid_counterparty_serial_id_OwnParity(ctx, serial_id) ==
    ctx.holder_is_initiator = is_valid_for_initiator(serial_id)

is_valid_counterparty_serial_id(ctx, serial_id) ==
    ctx.holder_is_initiator = ~is_valid_for_initiator(serial_id)

OutPoint(txid, vout) == [txid |-> txid, vout |-> vout]

\* transaction.output.get(i): Rust indexes from 0, TLA+ sequences from 1
HasOutput(tx, i) == i < Len(tx.output)
OutputAt(tx, i) == tx.output[i + 1]

TxInputWithPrevOutput(outpoint, sequence, prev_out) ==
    [previous_output |-> outpoint, sequence |-> sequence, prev_output |-> prev_out]
\* mutant: the outpoint is recorded but never looked up
receive_tx_add_input_NoOutpointCheck(ctx, msg, confirmed) ==
    LET outpoint == OutPoint(msg.prevtx.txid, msg.prevtx_out)
        count == (ctx.received_tx_add_input_count + 1) % U16
    IN
    IF ~is_valid_counterparty_serial_id(ctx, msg.serial_id)
    THEN Err("IncorrectSerialIdParity")
    ELSE IF U32Geq(msg.sequence, SEQ_LIMIT)
    THEN Err("IncorrectInputSequenceValue")
    ELSE IF ctx.require_confirmed_inputs /\ ~confirmed
    THEN Err("InputsNotConfirmed")
    ELSE IF ~HasOutput(msg.prevtx, msg.prevtx_out)
    THEN Err("PrevTxOutInvalid")
    ELSE IF ~is_witness_program(OutputAt(msg.prevtx, msg.prevtx_out).script_pubkey)
    THEN Err("PrevTxOutInvalid")
    ELSE IF count > MAX_RECEIVED_TX_ADD_INPUT_COUNT
    THEN Err("ReceivedTooManyTxAddInputs")
    ELSE IF msg.serial_id \in DOMAIN ctx.inputs
    THEN Err("DuplicateSerialId")
    ELSE Ok([ctx EXCEPT
            !.prevtx_outpoints = @ \cup {outpoint},
            !.received_tx_add_input_count = count,
            !.inputs = MapInsert(@, msg.serial_id,
                TxInputWithPrevOutput(outpoint, msg.sequence,
                                      OutputAt(msg.prevtx, msg.prevtx_out)))])

\* mutant: the received counter is incremented but never compared with its limit
receive_tx_add_input_NoLimit(ctx, msg, confirmed) ==
    LET outpoint == [txid |-> msg.prevtx.txid, vout |-> msg.prevtx_out]
        count == (ctx.received_tx_add_input_count + 1) % U16
    IN
    IF ctx.holder_is_initiator = (msg.serial_id % 2 = 0)
    THEN Err("IncorrectSerialIdParity")
    ELSE IF U32Geq(msg.sequence, SEQ_LIMIT)
    THEN Err("IncorrectInputSequenceValue")
    ELSE IF ctx.require_confirmed_inputs /\ ~confirmed
    THEN Err("InputsNotConfirmed")
    ELSE IF ~(msg.prevtx_out < Len(msg.prevtx.output))
    THEN Err("PrevTxOutInvalid")
    ELSE IF ~is_witness_program(msg.prevtx.output[msg.prevtx_out + 1].script_pubkey)
    THEN Err("PrevTxOutInvalid")
    ELSE IF outpoint \in ctx.prevtx_outpoints
    THEN Err("PrevTxOutInvalid")
    ELSE IF msg.serial_id \in DOMAIN ctx.inputs
    THEN Err("DuplicateSerialId")
    ELSE Ok([ctx EXCEPT
            !.prevtx_outpoints = @ \cup {outpoint},
            !.received_tx_add_input_count = count,
            !.inputs = MapInsert(@, msg.serial_id,
                [previous_output |-> outpoint, sequence |-> msg.sequence,
                 prev_output |-> msg.prevtx.output[msg.prevtx_out + 1]])])

receive_tx_add_input(ctx, msg, confirmed) ==
    LET outpoint == OutPoint(msg.prevtx.txid, msg.prevtx_out)
        count == (ctx.received_tx_add_input_count + 1) % U16
    IN
    IF ~is_valid_counterparty_serial_id(ctx, msg.serial_id)
    THEN Err("IncorrectSerialIdParity")
    ELSE IF U32Geq(msg.sequence, SEQ_LIMIT)
    THEN Err("IncorrectInputSequenceValue")
    ELSE IF ctx.require_confirmed_inputs /\ ~confirmed
    THEN Err("InputsNotConfirmed")
    ELSE IF ~HasOutput(msg.prevtx, msg.prevtx_out)
    THEN Err("PrevTxOutInvalid")
    ELSE IF ~is_witness_program(OutputAt(msg.prevtx, msg.prevtx_out).script_pubkey)
    THEN Err("PrevTxOutInvalid")
    ELSE IF outpoint \in ctx.prevtx_outpoints
    THEN Err("PrevTxOutInvalid")
    ELSE IF count > MAX_RECEIVED_TX_ADD_INPUT_COUNT
    THEN Err("ReceivedTooManyTxAddInputs")
    ELSE IF msg.serial_id \in DOMAIN ctx.inputs
    THEN Err("DuplicateSerialId")
    ELSE Ok([ctx EXCEPT
            !.prevtx_outpoints = @ \cup {outpoint},
            !.received_tx_add_input_count = count,
            !.inputs = MapInsert(@, msg.serial_id,
                TxInputWithPrevOutput(outpoint, msg.sequence,
                                      OutputAt(msg.prevtx, msg.prevtx_out)))])
\* mutant: the input is removed but its outpoint stays in prevtx_outpoints
receive_tx_remove_input_KeepsOutpoint(ctx, serial_id) ==
    IF ~is_valid_counterparty_serial_id(ctx, serial_id)
    THEN Err("IncorrectSerialIdParity")
    ELSE IF serial_id \in DOMAIN ctx.inputs
    THEN Ok([ctx EXCEPT !.inputs = MapRemove(@, serial_id)])
    ELSE Err("SerialIdUnknown")

\* mutant: removing an input gives its slot of the received counter back
receive_tx_remove_input_Decrements(ctx, serial_id) ==
    IF ~is_valid_counterparty_serial_id(ctx, serial_id)
    THEN Err("IncorrectSerialIdParity")
    ELSE IF serial_id \in DOMAIN ctx.inputs
    THEN Ok([ctx EXCEPT
            !.prevtx_outpoints = @ \ {ctx.inputs[serial_id].previous_output},
            !.received_tx_add_input_count = @ - 1,
            !.inputs = MapRemove(@, serial_id)])
    ELSE Err("SerialIdUnknown")

receive_tx_remove_input(ctx, serial_id) ==
    IF ~is_valid_counterparty_serial_id(ctx, serial_id)
    THEN Err("IncorrectSerialIdParity")
    ELSE IF serial_id \in DOMAIN ctx.inputs
    THEN Ok([ctx EXCEPT
            !.prevtx_outpoints = @ \ {ctx.inputs[serial_id].previous_output},
            !.inputs = MapRemove(@, serial_id)])
    ELSE Err("SerialIdUnknown")
\* mutant: a received output is stored without looking for its serial id
receive_tx_add_output_NoDuplicateCheck(ctx, serial_id, output) ==
    LET count == (ctx.received_tx_add_output_count + 1) % U16
    IN
    IF ~is_valid_counterparty_serial_id(ctx, serial_id)
    THEN Err("IncorrectSerialIdParity")
    ELSE IF count > MAX_RECEIVED_TX_ADD_OUTPUT_COUNT
    THEN Err("ReceivedTooManyTxAddOutputs")
    ELSE IF SatLt(output.value, Sats(dust_value(output.script_pubkey)))
    THEN Err("ExceededDustLimit")
    ELSE IF SatLt(TOTAL_BITCOIN_SUPPLY_SATOSHIS, output.value)
    THEN Err("ExceededMaximumSatsAllowed")
    ELSE IF ~is_v0_p2wpkh(output.script_pubkey) /\ ~is_v0_p2wsh(output.script_pubkey)
            /\ ~is_v1_p2tr(output.script_pubkey)
    THEN Err("InvalidOutputScript")
    ELSE Ok([ctx EXCEPT
            !.received_tx_add_output_count = count,
            !.outputs = MapInsert(@, serial_id, output)])
\* mutant: the dust limit is looked at before the counter
receive_tx_add_output_DustFirst(ctx, serial_id, output) ==
    LET count == (ctx.received_tx_add_output_count + 1) % U16
    IN
    IF ~is_valid_counterparty_serial_id(ctx, serial_id)
    THEN Err("IncorrectSerialIdParity")
    ELSE IF SatLt(output.value, Sats(dust_value(output.script_pubkey)))
    THEN Err("ExceededDustLimit")
    ELSE IF count > MAX_RECEIVED_TX_ADD_OUTPUT_COUNT
    THEN Err("ReceivedTooManyTxAddOutputs")
    ELSE IF SatLt(TOTAL_BITCOIN_SUPPLY_SATOSHIS, output.value)
    THEN Err("ExceededMaximumSatsAllowed")
    ELSE IF ~is_v0_p2wpkh(output.script_pubkey) /\ ~is_v0_p2wsh(output.script_pubkey)
            /\ ~is_v1_p2tr(output.script_pubkey)
    THEN Err("InvalidOutputScript")
    ELSE IF serial_id \in DOMAIN ctx.outputs
    THEN Err("DuplicateSerialId")
    ELSE Ok([ctx EXCEPT
            !.received_tx_add_output_count = count,
            !.outputs = MapInsert(@, serial_id, output)])

receive_tx_add_output(ctx, serial_id, output) ==
    LET count == (ctx.received_tx_add_output_count + 1) % U16
    IN
    IF ~is_valid_counterparty_serial_id(ctx, serial_id)
    THEN Err("IncorrectSerialIdParity")
    ELSE IF count > MAX_RECEIVED_TX_ADD_OUTPUT_COUNT
    THEN Err("ReceivedTooManyTxAddOutputs")
    ELSE IF SatLt(output.value, Sats(dust_value(output.script_pubkey)))
    THEN Err("ExceededDustLimit")
    ELSE IF SatLt(TOTAL_BITCOIN_SUPPLY_SATOSHIS, output.value)
    THEN Err("ExceededMaximumSatsAllowed")
    ELSE IF ~is_v0_p2wpkh(output.script_pubkey) /\ ~is_v0_p2wsh(output.script_pubkey)
            /\ ~is_v1_p2tr(output.script_pubkey)
    THEN Err("InvalidOutputScript")
    ELSE IF serial_id \in DOMAIN ctx.outputs
    THEN Err("DuplicateSerialId")
    ELSE Ok([ctx EXCEPT
            !.received_tx_add_output_count = count,
            !.outputs = MapInsert(@, serial_id, output)])

receive_tx_remove_output(ctx, serial_id) ==
    IF ~is_valid_counterparty_serial_id(ctx, serial_id)
    THEN Err("IncorrectSerialIdParity")
    ELSE IF serial_id \in DOMAIN ctx.outputs
    THEN Ok([ctx EXCEPT !.outputs = MapRemove(@, serial_id)])
    ELSE Err("SerialIdUnknown")

send_tx_add_input(ctx, msg) ==
    IF ~HasOutput(msg.prevtx, msg.prevtx_out)
    THEN Err("PrevTxOutInvalid")
    ELSE Ok([ctx EXCEPT
            !.inputs = MapInsert(@, msg.serial_id,
                TxInputWithPrevOutput(OutPoint(msg.prevtx.txid, msg.prevtx_out),
                                      msg.sequence,
                                      OutputAt(msg.prevtx, msg.prevtx_out)))])

send_tx_add_output(ctx, serial_id, output) ==
    [ctx EXCEPT !.outputs = MapInsert(@, serial_id, output)]

send_tx_remove_input(ctx, serial_id) ==
    [ctx EXCEPT !.inputs = MapRemove(@, serial_id)]

send_tx_remove_output(ctx, serial_id) ==
    [ctx EXCEPT !.outputs = MapRemove(@, serial_id)]

-----------------------------------------------------------------------------
(* NegotiationContext::build_transaction *)

\* the serial ids of map m contributed by the initiator / by the non-initiator
initiator_contributed(m) == {s \in DOMAIN m : is_valid_for_initiator(s)}
non_initiator_contributed(m) == {s \in DOMAIN m : ~is_valid_for_initiator(s)}

InputValues(ctx) == [s \in DOMAIN ctx.inputs |-> ctx.inputs[s].prev_output.value]
OutputValues(ctx) == [s \in DOMAIN ctx.outputs |-> ctx.outputs[s].value]

\* bytes of a Bitcoin compact size
VarIntLen(n) == IF n < 253 THEN 1 ELSE IF n < 65536 THEN 3 ELSE 5

\* Transaction::weight() of tx_to_validate: no input carries a script_sig or a
\* witness, so the weight is WITNESS_SCALE_FACTOR times the serialized size.
tx_weight(ctx) ==
    LET n_in == Cardinality(DOMAIN ctx.inputs)
        n_out == Cardinality(DOMAIN ctx.outputs)
        out_size == [s \in DOMAIN ctx.outputs |->
                        Sats(8 + VarIntLen(script_len(ctx.outputs[s].script_pubkey))
                               + script_len(ctx.outputs[s].script_pubkey))]
    IN  WITNESS_SCALE_FACTOR *
          (4 + VarIntLen(n_in) + VarIntLen(n_out) + 4
             + n_in * (32 + 4 + 4 + 1)
             + SumOver(out_size, DOMAIN ctx.outputs).lo)

tx_to_validate(ctx) ==
    [version |-> ctx.base_tx.version,
     lock_time |-> ctx.base_tx.lock_time,
     input |-> ValuesBag([s \in DOMAIN ctx.inputs |->
                    [previous_output |-> ctx.inputs[s].previous_output,
                     sequence |-> ctx.inputs[s].sequence]]),
     output |-> ValuesBag(ctx.outputs)]

\* (4 version + 4 locktime + 1 input count + 1 output count) * 4 + 2
tx_common_fields_weight == (4 + 4 + 1 + 1) * WITNESS_SCALE_FACTOR + 2
\* mutant: the number of entries is looked at before the balance
build_transaction_CardinalityFirst(ctx) ==
    LET tx == tx_to_validate(ctx)
        total_input_amount == SumOver(InputValues(ctx), DOMAIN ctx.inputs)
        total_output_amount == SumOver(OutputValues(ctx), DOMAIN ctx.outputs)
    IN
    IF Cardinality(DOMAIN ctx.inputs) > MAX_INPUTS_OUTPUTS_COUNT
            \/ Cardinality(DOMAIN ctx.outputs) > MAX_INPUTS_OUTPUTS_COUNT
    THEN {Err("ExceededNumberOfInputsOrOutputs")}
    ELSE IF SatLt(total_input_amount, total_output_amount)
    THEN {Err("OutputsExceedInputs")}
    ELSE IF tx_weight(ctx) > MAX_STANDARD_TX_WEIGHT
    THEN {Err("TransactionTooLarge")}
    ELSE {Ok(tx)}

\* The fee check of one branch of build_transaction, on the counterparty's
\* contributions.  The set of outcomes the build can produce:
\*  - inputs_value - outputs_value is a u64 subtraction: when it underflows, a
\*    build with overflow checks panics, and a build without them wraps to
\*    2^64 - (outputs_value - inputs_value), which no required fee of the model
\*    exceeds (feerate is a u32, so required < 2^43), so the check passes;
\*  - feerate * 1000 / contribution_weight panics when the weight is 0.
fee_check(inputs_value, outputs_value, n_inputs, n_outputs, feerate, common_fee, tx) ==
    LET contribution_weight == n_inputs * INPUT_WEIGHT + n_outputs * OUTPUT_WEIGHT
    IN
    IF SatLt(inputs_value, outputs_value)
    THEN {Panic, IF contribution_weight = 0 THEN Panic ELSE Ok(tx)}
    ELSE IF contribution_weight = 0
    THEN {Panic}
    ELSE IF SatLt(SatSub(inputs_value, outputs_value),
                  Sats(common_fee + (feerate * 1000) \div contribution_weight))
    THEN {Err("InsufficientFees")}
    ELSE {Ok(tx)}

\* The set of outcomes of build_transaction (one, except on u64 underflow).
build_transaction(ctx) ==
    LET tx == tx_to_validate(ctx)
        total_input_amount == SumOver(InputValues(ctx), DOMAIN ctx.inputs)
        total_output_amount == SumOver(OutputValues(ctx), DOMAIN ctx.outputs)
    IN
    IF SatLt(total_input_amount, total_output_amount)
    THEN {Err("OutputsExceedInputs")}
    ELSE IF Cardinality(DOMAIN ctx.inputs) > MAX_INPUTS_OUTPUTS_COUNT
            \/ Cardinality(DOMAIN ctx.outputs) > MAX_INPUTS_OUTPUTS_COUNT
    THEN {Err("ExceededNumberOfInputsOrOutputs")}
    ELSE IF tx_weight(ctx) > MAX_STANDARD_TX_WEIGHT
    THEN {Err("TransactionTooLarge")}
    ELSE IF ctx.holder_is_initiator
    THEN fee_check(
            SumOver(InputValues(ctx), non_initiator_contributed(ctx.inputs)),
            SumOver(OutputValues(ctx), non_initiator_contributed(ctx.outputs)),
            Cardinality(non_initiator_contributed(ctx.inputs)),
            Cardinality(non_initiator_contributed(ctx.outputs)),
            ctx.feerate_sat_per_kw, 0, tx)
    ELSE fee_check(
            SumOver(InputValues(ctx), initiator_contributed(ctx.inputs)),
            SumOver(OutputValues(ctx), initiator_contributed(ctx.outputs)),
            Cardinality(initiator_contributed(ctx.inputs)),
            Cardinality(initiator_contributed(ctx.outputs)),
            ctx.feerate_sat_per_kw,
            (ctx.feerate_sat_per_kw * 1000) \div tx_common_fields_weight, tx)

-----------------------------------------------------------------------------
(* StateMachine: the enum and the StateTransition impls *)

LocalChange(ctx) == [tag |-> "LocalChange", ctx |-> ctx]
RemoteChange(ctx) == [tag |-> "RemoteChange", ctx |-> ctx]
LocalTxComplete(ctx) == [tag |-> "LocalTxComplete", ctx |-> ctx]
RemoteTxComplete(ctx) == [tag |-> "RemoteTxComplete", ctx |-> ctx]
NegotiationComplete(tx) == [tag |-> "NegotiationComplete", tx |-> tx]
NegotiationAborted(reason) == [tag |-> "NegotiationAborted", reason |-> reason]
\* StateMachine::default(), what core::mem::take leaves behind
Indeterminate == [tag |-> "Indeterminate"]

\* impl LocalState for LocalChange, LocalTxComplete
LocalState(sm) == sm.tag \in {"LocalChange", "LocalTxComplete"}
\* impl RemoteState for RemoteChange, RemoteTxComplete
RemoteState(sm) == sm.tag \in {"RemoteChange", "RemoteTxComplete"}
\* the states that hold a NegotiationContext
HasContext(sm) == LocalState(sm) \/ RemoteState(sm)

\* context.op(..)?; Ok(NewState(context))
TransitionToRemoteChange(result) ==
    IF result.kind = "Ok" THEN Ok(RemoteChange(result.val)) ELSE result

TransitionToLocalChange(result) ==
    IF result.kind = "Ok" THEN Ok(LocalChange(result.val)) ELSE result

StateMachine_new(feerate_sat_per_kw, require_confirmed_inputs, initiator, base_tx) ==
    LET context == [
            require_confirmed_inputs |-> require_confirmed_inputs,
            base_tx |-> base_tx,
            holder_is_initiator |-> initiator,
            received_tx_add_input_count |-> 0,
            received_tx_add_output_count |-> 0,
            inputs |-> EmptyMap,
            prevtx_outpoints |-> {},
            outputs |-> EmptyMap,
            feerate_sat_per_kw |-> feerate_sat_per_kw]
    IN  IF initiator THEN RemoteChange(context) ELSE LocalChange(context)

TxOut(value, script_pubkey) == [value |-> value, script_pubkey |-> script_pubkey]

StateMachine_receive_tx_add_input(sm, msg, confirmed) ==
    IF LocalState(sm)
    THEN TransitionToRemoteChange(receive_tx_add_input(sm.ctx, msg, confirmed))
    ELSE Err("UnexpectedCounterpartyMessage")

StateMachine_receive_tx_add_output(sm, msg) ==
    IF LocalState(sm)
    THEN TransitionToRemoteChange(receive_tx_add_output(sm.ctx, msg.serial_id, TxOut(msg.sats, msg.script)))
    ELSE Err("UnexpectedCounterpartyMessage")

StateMachine_receive_tx_remove_input(sm, msg) ==
    IF LocalState(sm)
    THEN TransitionToRemoteChange(receive_tx_remove_input(sm.ctx, msg.serial_id))
    ELSE Err("UnexpectedCounterpartyMessage")

StateMachine_receive_tx_remove_output(sm, msg) ==
    IF LocalState(sm)
    THEN TransitionToRemoteChange(receive_tx_remove_output(sm.ctx, msg.serial_id))
    ELSE Err("UnexpectedCounterpartyMessage")

StateMachine_send_tx_add_input(sm, msg) ==
    IF RemoteState(sm)
    THEN TransitionToLocalChange(send_tx_add_input(sm.ctx, msg))
    ELSE Err("UnexpectedCounterpartyMessage")

\* mutant: a send is accepted whoever's turn it is
StateMachine_send_tx_add_output_AnyTurn(sm, msg) ==
    IF HasContext(sm)
    THEN Ok(LocalChange(send_tx_add_output(sm.ctx, msg.serial_id, TxOut(msg.sats, msg.script))))
    ELSE Err("UnexpectedCounterpartyMessage")

StateMachine_send_tx_add_output(sm, msg) ==
    IF RemoteState(sm)
    THEN Ok(LocalChange(send_tx_add_output(sm.ctx, msg.serial_id, TxOut(msg.sats, msg.script))))
    ELSE Err("UnexpectedCounterpartyMessage")

StateMachine_send_tx_remove_input(sm, msg) ==
    IF RemoteState(sm)
    THEN Ok(LocalChange(send_tx_remove_input(sm.ctx, msg.serial_id)))
    ELSE Err("UnexpectedCounterpartyMessage")

StateMachine_send_tx_remove_output(sm, msg) ==
    IF RemoteState(sm)
    THEN Ok(LocalChange(send_tx_remove_output(sm.ctx, msg.serial_id)))
    ELSE Err("UnexpectedCounterpartyMessage")

\* StateTransition<NegotiationComplete, &TxComplete> for LocalTxComplete / RemoteTxComplete:
\* the set of outcomes, one per outcome of build_transaction
TransitionToComplete(ctx) ==
    {IF r.kind = "Ok" THEN Ok(NegotiationComplete(r.val)) ELSE r : r \in build_transaction(ctx)}

\* the set of outcomes of StateMachine::receive_tx_complete
StateMachine_receive_tx_complete(sm) ==
    IF sm.tag = "LocalChange" THEN {Ok(RemoteTxComplete(sm.ctx))}
    ELSE IF sm.tag = "LocalTxComplete" THEN TransitionToComplete(sm.ctx)
    ELSE {Err("UnexpectedCounterpartyMessage")}

\* mutant: the first sent tx_complete lands in the peer's completion state
StateMachine_send_tx_complete_WrongTarget(sm) ==
    IF sm.tag = "RemoteChange" THEN {Ok(RemoteTxComplete(sm.ctx))}
    ELSE IF sm.tag = "RemoteTxComplete" THEN TransitionToComplete(sm.ctx)
    ELSE {Err("UnexpectedCounterpartyMessage")}

\* the set of outcomes of StateMachine::send_tx_complete
StateMachine_send_tx_complete(sm) ==
    IF sm.tag = "RemoteChange" THEN {Ok(LocalTxComplete(sm.ctx))}
    ELSE IF sm.tag = "RemoteTxComplete" THEN TransitionToComplete(sm.ctx)
    ELSE {Err("UnexpectedCounterpartyMessage")}

-----------------------------------------------------------------------------
(* The messages and configurations the model draws from *)

SerialIds == 0 .. 3

\* previous transactions a tx_add_input can carry: txid stands for the hash
PrevTxA == [txid |-> 1, output |-> <<TxOut(Sats(10000), "p2wpkh"), TxOut(Sats(500), "p2pkh")>>]
PrevTxB == [txid |-> 2, output |-> <<TxOut(Sats(2000), "p2wsh")>>]
\* Transaction { version: 0, lock_time: ZERO, input: vec![], output: vec![] }
DummyPrevTx == [txid |-> 0, output |-> <<>>]

\* tx_add_input as the peer can send it
TxAddInputMsgs ==
    [serial_id : SerialIds, prevtx : {PrevTxA, PrevTxB}, prevtx_out : 0 .. 1,
     sequence : {ENABLE_RBF_NO_LOCKTIME, SEQ_LIMIT}]
\* tx_add_input as a driver can send it, the message of generate_message_send among them
SentTxAddInputMsgs ==
    [serial_id : SerialIds, prevtx : {PrevTxA, PrevTxB, DummyPrevTx}, prevtx_out : 0 .. 1,
     sequence : {ENABLE_RBF_NO_LOCKTIME}]
TxAddOutputMsgs ==
    [serial_id : SerialIds,
     sats : {Sats(100), Sats(330), SatAdd(TOTAL_BITCOIN_SUPPLY_SATOSHIS, Sats(1))},
     script : {"p2wpkh", "p2tr", "p2pkh"}]
TxRemoveInputMsgs == [serial_id : SerialIds]
TxRemoveOutputMsgs == [serial_id : SerialIds]

\* what the caller hands to new
Feerates == {0, 253}
BaseTx == [version |-> 2, lock_time |-> 0]
PendingInputs == {TxInputWithPrevOutput(OutPoint(1, 0), ENABLE_RBF_NO_LOCKTIME,
                                        TxOut(Sats(10000), "p2wpkh"))}
PendingOutputs == {TxOut(Sats(330), "p2wpkh"), TxOut(Sats(20000), "p2tr")}
\* the u64 read from the first 8 bytes of get_secure_random_bytes()
RandVals == 0 .. 3

SeqsUpTo(S, n) == UNION {[1 .. k -> S] : k \in 0 .. n}

-----------------------------------------------------------------------------
(* History of who added an entry *)

EmptyOrigin == [inputs |-> EmptyMap, outputs |-> EmptyMap]

\* origin after `event` on `serial_id` left the machine in sm_after
OriginAfter(o, event, serial_id, sm_after) ==
    IF ~HasContext(sm_after) THEN EmptyOrigin
    ELSE CASE event = "receive_tx_add_input" -> [o EXCEPT !.inputs = MapInsert(@, serial_id, "remote")]
           [] event = "receive_tx_add_output" -> [o EXCEPT !.outputs = MapInsert(@, serial_id, "remote")]
           [] event = "send_tx_add_input" -> [o EXCEPT !.inputs = MapInsert(@, serial_id, "local")]
           [] event = "send_tx_add_output" -> [o EXCEPT !.outputs = MapInsert(@, serial_id, "local")]
           [] event \in {"receive_tx_remove_input", "send_tx_remove_input"} ->
                [o EXCEPT !.inputs = MapRemove(@, serial_id)]
           [] event \in {"receive_tx_remove_output", "send_tx_remove_output"} ->
                [o EXCEPT !.outputs = MapRemove(@, serial_id)]
           [] OTHER -> o

-----------------------------------------------------------------------------
(* InteractiveTxConstructor *)

\* .map(|state_machine| self.state_machine = state_machine)
\* .map_err(|abort_reason| self.state_machine = NegotiationAborted(abort_reason));
\* a panic leaves what core::mem::take put there
Store(result) ==
    CASE result.kind = "Ok" -> result.val
      [] result.kind = "Err" -> NegotiationAborted(result.err)
      [] result.kind = "Panic" -> Indeterminate
\* mutant: the random id is used as drawn, whatever its parity
generate_local_serial_id_NoParityFix(rand, initiator) == rand

generate_local_serial_id(rand, initiator) ==
    IF is_valid_for_initiator(rand) # initiator
    THEN (IF rand % 2 = 0 THEN rand + 1 ELSE rand - 1)   \* serial_id ^= 1
    ELSE rand

Pop(v) == SubSeq(v, 1, Len(v) - 1)

\* what one send leaves: the machine, the pending lists, the returned message
Sent(result, ins, outs, message, event, serial_id) ==
    [state_machine |-> Store(result),
     inputs_to_contribute |-> ins,
     outputs_to_contribute |-> outs,
     ret |-> CASE result.kind = "Ok" -> message
               [] result.kind = "Err" -> "Err"
               [] result.kind = "Panic" -> "Panic",
     event |-> event,
     serial_id |-> serial_id]
\* mutant: pending outputs are sent before pending inputs
generate_message_send_OutputsFirst(sm, ins, outs, rand, initiator) ==
    IF outs # <<>>
    THEN LET output == outs[Len(outs)]
             msg == [serial_id |-> generate_local_serial_id(rand, initiator),
                     sats |-> output.value,
                     script |-> output.script_pubkey]
         IN  {Sent(StateMachine_send_tx_add_output(sm, msg), ins, Pop(outs),
                   "TxAddOutput", "send_tx_add_output", msg.serial_id)}
    ELSE IF ins # <<>>
    THEN LET msg == [serial_id |-> generate_local_serial_id(rand, initiator),
                     prevtx |-> DummyPrevTx,
                     prevtx_out |-> 0,
                     sequence |-> ENABLE_RBF_NO_LOCKTIME]
         IN  {Sent(StateMachine_send_tx_add_input(sm, msg), Pop(ins), outs,
                   "TxAddInput", "send_tx_add_input", msg.serial_id)}
    ELSE {Sent(r, ins, outs, "TxComplete", "send_tx_complete", 0) :
            r \in StateMachine_send_tx_complete(sm)}

\* The set of outcomes of generate_message_send.
generate_message_send(sm, ins, outs, rand, initiator) ==
    IF ins # <<>>
    THEN LET msg == [serial_id |-> generate_local_serial_id(rand, initiator),
                     prevtx |-> DummyPrevTx,
                     prevtx_out |-> 0,
                     sequence |-> ENABLE_RBF_NO_LOCKTIME]
         IN  {Sent(StateMachine_send_tx_add_input(sm, msg), Pop(ins), outs,
                   "TxAddInput", "send_tx_add_input", msg.serial_id)}
    ELSE IF outs # <<>>
    THEN LET output == outs[Len(outs)]
             msg == [serial_id |-> generate_local_serial_id(rand, initiator),
                     sats |-> output.value,
                     script |-> output.script_pubkey]
         IN  {Sent(StateMachine_send_tx_add_output(sm, msg), ins, Pop(outs),
                   "TxAddOutput", "send_tx_add_output", msg.serial_id)}
    ELSE {Sent(r, ins, outs, "TxComplete", "send_tx_complete", 0) :
            r \in StateMachine_send_tx_complete(sm)}

-----------------------------------------------------------------------------
(* Spec: the InteractiveTxConstructor and its public calls *)

\* InteractiveTxConstructor::new; `.unwrap()` panics when the opening send fails
New(feerate_sat_per_kw, require_confirmed_inputs, initiator, ins, outs, rand) ==
    LET sm == StateMachine_new(feerate_sat_per_kw, require_confirmed_inputs, initiator, BaseTx)
    IN  IF initiator
        THEN {[g EXCEPT !.ret = IF g.ret = "Err" THEN "Panic" ELSE g.ret] :
                g \in generate_message_send(sm, ins, outs, rand, initiator)}
        ELSE {[state_machine |-> sm, inputs_to_contribute |-> ins,
               outputs_to_contribute |-> outs, ret |-> "None",
               event |-> "none", serial_id |-> 0]}

InitNew ==
    \E feerate \in Feerates, confirm \in BOOLEAN, initiator \in BOOLEAN,
       ins \in SeqsUpTo(PendingInputs, MaxPending),
       outs \in SeqsUpTo(PendingOutputs, MaxPending), rand \in RandVals :
      \E n \in New(feerate, confirm, initiator, ins, outs, rand) :
        /\ state_machine = n.state_machine
        /\ inputs_to_contribute = n.inputs_to_contribute
        /\ outputs_to_contribute = n.outputs_to_contribute
        /\ is_initiator = initiator
        /\ origin = OriginAfter(EmptyOrigin, n.event, n.serial_id, n.state_machine)
        /\ last_event = n.event
        /\ prev_event = "none"
        /\ last_from = "none"
        /\ ret = n.ret
        /\ steps = 0
        /\ mirror = Indeterminate
        /\ rand_bytes = <<>>
        /\ peer = <<>>
        /\ in_flight = <<>>

\* The constructor of a holder with nothing to contribute after the peer sent
\* PreCount tx_add_input and PreCount tx_add_output messages and removed each
\* one again: every such call was answered with tx_complete, the maps are
\* empty and only the received counters remember the exchange.
InitNearLimit ==
    \E feerate \in Feerates, confirm \in BOOLEAN, initiator \in BOOLEAN :
        /\ state_machine = LocalTxComplete(
              [StateMachine_new(feerate, confirm, initiator, BaseTx).ctx EXCEPT
                  !.received_tx_add_input_count = PreCount,
                  !.received_tx_add_output_count = PreCount])
        /\ inputs_to_contribute = <<>>
        /\ outputs_to_contribute = <<>>
        /\ is_initiator = initiator
        /\ origin = EmptyOrigin
        /\ last_event = "send_tx_complete"
        /\ prev_event = "receive_tx_remove_output"
        /\ last_from = "LocalTxComplete"
        /\ ret = "TxComplete"
        /\ steps = 0
        /\ mirror = Indeterminate
        /\ rand_bytes = <<>>
        /\ peer = <<>>
        /\ in_flight = <<>>

Init == InitNew \/ InitNearLimit

\* no call is made on a constructor whose thread panicked
Callable == steps < MaxSteps /\ ret # "Panic" /\ state_machine.tag # "Indeterminate"

\* self.generate_message_send() after the receive event `event` left machine sm
ThenSend(event, serial_id, sm) ==
    \E g \in UNION {generate_message_send(sm, inputs_to_contribute, outputs_to_contribute,
                                          rand, is_initiator) : rand \in RandVals} :
        /\ state_machine' = g.state_machine
        /\ inputs_to_contribute' = g.inputs_to_contribute
        /\ outputs_to_contribute' = g.outputs_to_contribute
        /\ ret' = g.ret
        /\ prev_event' = event
        /\ last_event' = g.event
        /\ origin' = OriginAfter(OriginAfter(origin, event, serial_id, sm),
                                 g.event, g.serial_id, g.state_machine)

\* mutant: the error of the receive event is swallowed, the call returns Ok(None)
NoSend_SwallowsError(event, result, returned) ==
    /\ state_machine' = Store(result)
    /\ ret' = "None"
    /\ prev_event' = last_event
    /\ last_event' = event
    /\ origin' = EmptyOrigin
    /\ UNCHANGED <<inputs_to_contribute, outputs_to_contribute>>

\* the receive event returned without a machine to continue with
NoSend(event, result, returned) ==
    /\ state_machine' = Store(result)
    /\ ret' = returned
    /\ prev_event' = last_event
    /\ last_event' = event
    /\ origin' = EmptyOrigin
    /\ UNCHANGED <<inputs_to_contribute, outputs_to_contribute>>

\* receive_tx_add_input / remove_input / add_output / remove_output of the constructor
ReceiveChange(event, serial_id, result) ==
    /\ steps' = steps + 1
    /\ last_from' = state_machine.tag
    /\ UNCHANGED <<is_initiator, mirror, rand_bytes, peer, in_flight>>
    /\ IF result.kind = "Ok"
       THEN ThenSend(event, serial_id, result.val)
       ELSE NoSend(event, result, "Err")

ReceiveTxAddInput ==
    /\ Callable
    /\ \E msg \in TxAddInputMsgs, confirmed \in BOOLEAN :
         ReceiveChange("receive_tx_add_input", msg.serial_id,
                       StateMachine_receive_tx_add_input(state_machine, msg, confirmed))

ReceiveTxRemoveInput ==
    /\ Callable
    /\ \E msg \in TxRemoveInputMsgs :
         ReceiveChange("receive_tx_remove_input", msg.serial_id,
                       StateMachine_receive_tx_remove_input(state_machine, msg))

ReceiveTxAddOutput ==
    /\ Callable
    /\ \E msg \in TxAddOutputMsgs :
         ReceiveChange("receive_tx_add_output", msg.serial_id,
                       StateMachine_receive_tx_add_output(state_machine, msg))

ReceiveTxRemoveOutput ==
    /\ Callable
    /\ \E msg \in TxRemoveOutputMsgs :
         ReceiveChange("receive_tx_remove_output", msg.serial_id,
                       StateMachine_receive_tx_remove_output(state_machine, msg))

\* InteractiveTxConstructor::receive_tx_complete
ReceiveTxComplete ==
    /\ Callable
    /\ steps' = steps + 1
    /\ last_from' = state_machine.tag
    /\ UNCHANGED <<is_initiator, mirror, rand_bytes, peer, in_flight>>
    /\ \E result \in StateMachine_receive_tx_complete(state_machine) :
         IF result.kind = "Ok" /\ result.val.tag = "RemoteTxComplete"
         THEN ThenSend("receive_tx_complete", 0, result.val)
         ELSE NoSend("receive_tx_complete", result,
                     CASE result.kind = "Ok" ->
                            \* NegotiationComplete => Ok(None); _ => Err(())
                            IF result.val.tag = "NegotiationComplete" THEN "None" ELSE "Err"
                       [] result.kind = "Err" -> "Err"
                       [] result.kind = "Panic" -> "Panic")

Next ==
    \/ ReceiveTxAddInput
    \/ ReceiveTxRemoveInput
    \/ ReceiveTxAddOutput
    \/ ReceiveTxRemoveOutput
    \/ ReceiveTxComplete

Spec == Init /\ [][Next]_vars

-----------------------------------------------------------------------------
(* SpecSM: the StateMachine driven one event at a time *)

\* the machine after construction, before any event
InitSMNew ==
    \E feerate \in Feerates, confirm \in BOOLEAN, initiator \in BOOLEAN :
        /\ state_machine = StateMachine_new(feerate, confirm, initiator, BaseTx)
        /\ is_initiator = initiator
        /\ last_event = "none"
        /\ prev_event = "none"
        /\ last_from = "none"
        /\ ret = "None"

\* the machine after PreCount received adds of each kind, each removed again
\* and each answered with a sent tx_complete (see InitNearLimit)
InitSMNearLimit ==
    \E feerate \in Feerates, confirm \in BOOLEAN, initiator \in BOOLEAN :
        /\ state_machine = LocalTxComplete(
              [StateMachine_new(feerate, confirm, initiator, BaseTx).ctx EXCEPT
                  !.received_tx_add_input_count = PreCount,
                  !.received_tx_add_output_count = PreCount])
        /\ is_initiator = initiator
        /\ last_event = "send_tx_complete"
        /\ prev_event = "receive_tx_remove_output"
        /\ last_from = "RemoteChange"
        /\ ret = "Ok"

InitSM ==
    /\ InitSMNew \/ InitSMNearLimit
    /\ inputs_to_contribute = <<>>
    /\ outputs_to_contribute = <<>>
    /\ origin = EmptyOrigin
    /\ steps = 0
    /\ mirror = Indeterminate
    /\ rand_bytes = <<>>
    /\ peer = <<>>
    /\ in_flight = <<>>

\* the serial ids the holder gives its own contributions
LocalSerialIds == {generate_local_serial_id(rand, is_initiator) : rand \in RandVals}

\* no event is driven on a machine whose thread panicked
Drivable == steps < MaxEvents /\ state_machine.tag # "Indeterminate"

\* take the machine, run the event, store the machine it returns or the abort
Drive(event, serial_id, result) ==
    /\ state_machine' = Store(result)
    /\ ret' = result.kind
    /\ last_from' = state_machine.tag
    /\ prev_event' = last_event
    /\ last_event' = event
    /\ origin' = OriginAfter(origin, event, serial_id, Store(result))
    /\ steps' = steps + 1
    /\ UNCHANGED <<inputs_to_contribute, outputs_to_contribute, is_initiator, mirror,
                   rand_bytes, peer, in_flight>>

SMReceiveTxAddInput ==
    /\ Drivable
    /\ \E msg \in TxAddInputMsgs, confirmed \in BOOLEAN :
         Drive("receive_tx_add_input", msg.serial_id,
               StateMachine_receive_tx_add_input(state_machine, msg, confirmed))

SMReceiveTxAddOutput ==
    /\ Drivable
    /\ \E msg \in TxAddOutputMsgs :
         Drive("receive_tx_add_output", msg.serial_id,
               StateMachine_receive_tx_add_output(state_machine, msg))

SMReceiveTxRemoveInput ==
    /\ Drivable
    /\ \E msg \in TxRemoveInputMsgs :
         Drive("receive_tx_remove_input", msg.serial_id,
               StateMachine_receive_tx_remove_input(state_machine, msg))

SMReceiveTxRemoveOutput ==
    /\ Drivable
    /\ \E msg \in TxRemoveOutputMsgs :
         Drive("receive_tx_remove_output", msg.serial_id,
               StateMachine_receive_tx_remove_output(state_machine, msg))

SMSendTxAddInput ==
    /\ Drivable
    /\ \E msg \in {m \in SentTxAddInputMsgs : m.serial_id \in LocalSerialIds} :
         Drive("send_tx_add_input", msg.serial_id,
               StateMachine_send_tx_add_input(state_machine, msg))

SMSendTxAddOutput ==
    /\ Drivable
    /\ \E msg \in {m \in TxAddOutputMsgs : m.serial_id \in LocalSerialIds} :
         Drive("send_tx_add_output", msg.serial_id,
               StateMachine_send_tx_add_output(state_machine, msg))

SMSendTxRemoveInput ==
    /\ Drivable
    /\ \E msg \in {m \in TxRemoveInputMsgs : m.serial_id \in LocalSerialIds} :
         Drive("send_tx_remove_input", msg.serial_id,
               StateMachine_send_tx_remove_input(state_machine, msg))

SMSendTxRemoveOutput ==
    /\ Drivable
    /\ \E msg \in {m \in TxRemoveOutputMsgs : m.serial_id \in LocalSerialIds} :
         Drive("send_tx_remove_output", msg.serial_id,
               StateMachine_send_tx_remove_output(state_machine, msg))

SMReceiveTxComplete ==
    /\ Drivable
    /\ \E result \in StateMachine_receive_tx_complete(state_machine) :
         Drive("receive_tx_complete", 0, result)

SMSendTxComplete ==
    /\ Drivable
    /\ \E result \in StateMachine_send_tx_complete(state_machine) :
         Drive("send_tx_complete", 0, result)

NextSM ==
    \/ SMReceiveTxAddInput
    \/ SMReceiveTxAddOutput
    \/ SMReceiveTxRemoveInput
    \/ SMReceiveTxRemoveOutput
    \/ SMSendTxAddInput
    \/ SMSendTxAddOutput
    \/ SMSendTxRemoveInput
    \/ SMSendTxRemoveOutput
    \/ SMReceiveTxComplete
    \/ SMSendTxComplete

SpecSM == InitSM /\ [][NextSM]_vars

-----------------------------------------------------------------------------
(* Vocabulary of the properties *)

ChangeReceives == {"receive_tx_add_input", "receive_tx_add_output",
                   "receive_tx_remove_input", "receive_tx_remove_output"}
ChangeSends == {"send_tx_add_input", "send_tx_add_output",
                "send_tx_remove_input", "send_tx_remove_output"}
ReceiveEvents == ChangeReceives \cup {"receive_tx_complete"}
SendEvents == ChangeSends \cup {"send_tx_complete"}
TxCompletes == {"receive_tx_complete", "send_tx_complete"}

\* a step of SpecSM is one event, a step of Spec one public call
Stepped == steps' = steps + 1

\* the parity of the holder's own serial ids: even for the initiator
HolderParity(serial_id) == (serial_id % 2 = 0) = is_initiator

-----------------------------------------------------------------------------
(* C1 *)

\* C1: turn alternation.  In LocalChange or LocalTxComplete every send event,
\* and in RemoteChange or RemoteTxComplete every receive event, is rejected:
\* the machine becomes NegotiationAborted(UnexpectedCounterpartyMessage), so
\* no context (inputs, outputs) survives the rejected event.
C1_TurnAlternation ==
    [][(Stepped /\ (\/ LocalState(state_machine) /\ last_event' \in SendEvents
                    \/ RemoteState(state_machine) /\ last_event' \in ReceiveEvents))
        => /\ state_machine' = NegotiationAborted("UnexpectedCounterpartyMessage")
           /\ ret' = "Err"]_vars

\* a send was driven in LocalTxComplete and rejected
C1_Witness ==
    /\ last_from = "LocalTxComplete"
    /\ last_event = "send_tx_add_output"
    /\ state_machine = NegotiationAborted("UnexpectedCounterpartyMessage")

-----------------------------------------------------------------------------
(* C2 *)

\* what a successful event may do, by the transition table
C2_TableStep ==
    (Stepped /\ ret' = "Ok") =>
        /\ last_event' \in ChangeReceives =>
              LocalState(state_machine) /\ state_machine'.tag = "RemoteChange"
        /\ last_event' \in ChangeSends =>
              RemoteState(state_machine) /\ state_machine'.tag = "LocalChange"
        /\ last_event' = "receive_tx_complete" =>
              \/ state_machine.tag = "LocalChange" /\ state_machine'.tag = "RemoteTxComplete"
              \/ state_machine.tag = "LocalTxComplete" /\ state_machine'.tag = "NegotiationComplete"
        /\ last_event' = "send_tx_complete" =>
              \/ state_machine.tag = "RemoteChange" /\ state_machine'.tag = "LocalTxComplete"
              \/ state_machine.tag = "RemoteTxComplete" /\ state_machine'.tag = "NegotiationComplete"
        /\ (last_event' \in TxCompletes /\ state_machine'.tag # "NegotiationComplete") =>
              state_machine'.ctx = state_machine.ctx

\* a received change the validator accepts succeeds and ends in RemoteChange
C2_ValidReceives ==
    LocalState(state_machine) =>
        /\ \A msg \in TxAddInputMsgs, confirmed \in BOOLEAN :
              LET v == receive_tx_add_input(state_machine.ctx, msg, confirmed)
              IN  v.kind = "Ok" =>
                    StateMachine_receive_tx_add_input(state_machine, msg, confirmed)
                        = Ok(RemoteChange(v.val))
        /\ \A msg \in TxAddOutputMsgs :
              LET v == receive_tx_add_output(state_machine.ctx, msg.serial_id,
                                             TxOut(msg.sats, msg.script))
              IN  v.kind = "Ok" =>
                    StateMachine_receive_tx_add_output(state_machine, msg)
                        = Ok(RemoteChange(v.val))
        /\ \A msg \in TxRemoveInputMsgs :
              LET v == receive_tx_remove_input(state_machine.ctx, msg.serial_id)
              IN  v.kind = "Ok" =>
                    StateMachine_receive_tx_remove_input(state_machine, msg)
                        = Ok(RemoteChange(v.val))
        /\ \A msg \in TxRemoveOutputMsgs :
              LET v == receive_tx_remove_output(state_machine.ctx, msg.serial_id)
              IN  v.kind = "Ok" =>
                    StateMachine_receive_tx_remove_output(state_machine, msg)
                        = Ok(RemoteChange(v.val))

\* C2: the events that succeed follow the transition table.  A received
\* change succeeds only from LocalChange / LocalTxComplete and ends in
\* RemoteChange, and every received change the context's validator accepts
\* does succeed there; a sent change succeeds only from RemoteChange /
\* RemoteTxComplete and ends in LocalChange; receive tx_complete takes
\* LocalChange to RemoteTxComplete and LocalTxComplete to NegotiationComplete;
\* send tx_complete takes RemoteChange to LocalTxComplete and RemoteTxComplete
\* to NegotiationComplete; a tx_complete that does not finalize leaves the
\* context as it was.
C2_TransitionTable == []C2_ValidReceives /\ [][C2_TableStep]_vars

\* a received tx_complete finalized from LocalTxComplete
C2_Witness ==
    /\ last_from = "LocalTxComplete"
    /\ last_event = "receive_tx_complete"
    /\ state_machine.tag = "NegotiationComplete"

-----------------------------------------------------------------------------
(* C3 *)

\* C3: NegotiationComplete is entered only by a tx_complete that directly
\* follows a tx_complete of the other direction; a change after a tx_complete
\* revokes it without abort (LocalTxComplete + accepted received change gives
\* RemoteChange, RemoteTxComplete + sent change gives LocalChange), and the
\* tx_complete that follows a change leads to LocalTxComplete or
\* RemoteTxComplete, not to NegotiationComplete.
C3_Claim ==
    [][Stepped =>
        /\ state_machine'.tag = "NegotiationComplete" =>
              \/ last_event' = "receive_tx_complete" /\ last_event = "send_tx_complete"
              \/ last_event' = "send_tx_complete" /\ last_event = "receive_tx_complete"
        /\ (state_machine.tag = "LocalTxComplete" /\ last_event' \in ChangeReceives
              /\ ret' = "Ok") => state_machine'.tag = "RemoteChange"
        /\ (state_machine.tag = "RemoteTxComplete" /\ last_event' \in ChangeSends)
              => state_machine'.tag = "LocalChange"
        /\ (last_event \in ChangeReceives \cup ChangeSends /\ last_event' \in TxCompletes
              /\ ret' = "Ok") => state_machine'.tag \in {"LocalTxComplete", "RemoteTxComplete"}
      ]_vars

-----------------------------------------------------------------------------
(* C4 *)

\* the public call of this step carried the second consecutive tx_complete:
\* receive_tx_complete in LocalTxComplete, or receive_tx_complete in
\* LocalChange answered by the driver's own tx_complete in RemoteTxComplete
SecondTxComplete ==
    /\ Stepped
    /\ \/ state_machine.tag = "LocalTxComplete" /\ last_event' = "receive_tx_complete"
       \/ state_machine.tag = "LocalChange" /\ prev_event' = "receive_tx_complete"
            /\ last_event' = "send_tx_complete"

\* C4: at the second consecutive tx_complete the state becomes
\* NegotiationComplete(tx) if build_transaction returns tx on the context
\* accumulated so far, and NegotiationAborted(reason) if it returns reason;
\* nothing else.
C4_Claim ==
    [][SecondTxComplete =>
        \E r \in build_transaction(state_machine.ctx) :
            \/ r.kind = "Ok" /\ state_machine' = NegotiationComplete(r.val)
            \/ r.kind = "Err" /\ state_machine' = NegotiationAborted(r.err)
      ]_vars

-----------------------------------------------------------------------------
(* C5 *)

\* C5: abort is terminal.  A public call made in NegotiationAborted leaves the
\* state NegotiationAborted and returns an error, never a message.
C5_AbortTerminal ==
    [][(Stepped /\ state_machine.tag = "NegotiationAborted")
        => state_machine'.tag = "NegotiationAborted" /\ ret' = "Err"]_vars

\* a public call was made on an aborted constructor
C5_Witness ==
    /\ last_from = "NegotiationAborted"
    /\ state_machine.tag = "NegotiationAborted"
    /\ ret = "Err"

-----------------------------------------------------------------------------
(* C6 *)

\* C6: the abort reason is preserved.  Once the state is
\* NegotiationAborted(reason), it is NegotiationAborted(reason) after every
\* further public call.
C6_Claim ==
    [][state_machine.tag = "NegotiationAborted" => state_machine' = state_machine]_vars

-----------------------------------------------------------------------------
(* C7 *)

\* C7: NegotiationComplete is terminal.  Once the state is
\* NegotiationComplete(tx), it is NegotiationComplete(tx) after every further
\* public call.
C7_Claim ==
    [][state_machine.tag = "NegotiationComplete" => state_machine' = state_machine]_vars

-----------------------------------------------------------------------------
(* C8 *)

\* every entry has the parity of the side that added it
C8_Parity ==
    HasContext(state_machine) =>
        /\ DOMAIN origin.inputs = DOMAIN state_machine.ctx.inputs
        /\ DOMAIN origin.outputs = DOMAIN state_machine.ctx.outputs
        /\ \A s \in DOMAIN origin.inputs :
              HolderParity(s) = (origin.inputs[s] = "local")
        /\ \A s \in DOMAIN origin.outputs :
              HolderParity(s) = (origin.outputs[s] = "local")

\* a received change with a serial id of the holder's parity aborts
C8_WrongParityAborts ==
    LocalState(state_machine) =>
        /\ \A msg \in TxAddInputMsgs, confirmed \in BOOLEAN :
              HolderParity(msg.serial_id) =>
                Store(StateMachine_receive_tx_add_input(state_machine, msg, confirmed))
                    = NegotiationAborted("IncorrectSerialIdParity")
        /\ \A msg \in TxAddOutputMsgs :
              HolderParity(msg.serial_id) =>
                Store(StateMachine_receive_tx_add_output(state_machine, msg))
                    = NegotiationAborted("IncorrectSerialIdParity")
        /\ \A msg \in TxRemoveInputMsgs :
              HolderParity(msg.serial_id) =>
                Store(StateMachine_receive_tx_remove_input(state_machine, msg))
                    = NegotiationAborted("IncorrectSerialIdParity")
        /\ \A msg \in TxRemoveOutputMsgs :
              HolderParity(msg.serial_id) =>
                Store(StateMachine_receive_tx_remove_output(state_machine, msg))
                    = NegotiationAborted("IncorrectSerialIdParity")

\* C8: parity invariant.  While the negotiation runs, every entry of inputs
\* and outputs added by a received message has a serial id of the
\* counterparty's parity and every entry added by a local step one of the
\* holder's parity; a received tx_add_* or tx_remove_* whose serial id has the
\* holder's parity aborts with IncorrectSerialIdParity.
C8_ParityInvariant == C8_Parity /\ C8_WrongParityAborts

\* the maps hold a received input and a locally added output
C8_Witness ==
    /\ LocalState(state_machine)
    /\ \E s \in DOMAIN origin.inputs : origin.inputs[s] = "remote"
    /\ \E s \in DOMAIN origin.outputs : origin.outputs[s] = "local"

-----------------------------------------------------------------------------
(* C9 *)

\* C9: outpoint index.  After every state-machine event that does not abort,
\* prevtx_outpoints is exactly the set of the previous outpoints of the
\* entries of inputs, whichever side added them.
C9_Claim ==
    HasContext(state_machine) =>
        state_machine.ctx.prevtx_outpoints =
            {state_machine.ctx.inputs[s].previous_output : s \in DOMAIN state_machine.ctx.inputs}

-----------------------------------------------------------------------------
(* C10 *)

\* both counters within the limit
C10_Bounded ==
    HasContext(state_machine) =>
        /\ state_machine.ctx.received_tx_add_input_count <= 4096
        /\ state_machine.ctx.received_tx_add_output_count <= 4096

\* no step makes a counter smaller
C10_Monotonic ==
    (HasContext(state_machine) /\ HasContext(state_machine')) =>
        /\ state_machine'.ctx.received_tx_add_input_count
              >= state_machine.ctx.received_tx_add_input_count
        /\ state_machine'.ctx.received_tx_add_output_count
              >= state_machine.ctx.received_tx_add_output_count

\* C10: counter invariant.  While the negotiation runs both received counters
\* are at most 4096, and no public call makes a counter smaller (so none
\* wraps around its 16 bits).
C10_CounterInvariant == []C10_Bounded /\ [][C10_Monotonic]_vars

\* the input counter stands at its limit in a running negotiation
C10_Witness ==
    /\ HasContext(state_machine)
    /\ state_machine.ctx.received_tx_add_input_count = 4096
    /\ last_event = "send_tx_complete"
    /\ prev_event = "receive_tx_add_input"

-----------------------------------------------------------------------------
(* C11 *)

\* the number of entries of a map
Size(m) == Cardinality(DOMAIN m)

-----------------------------------------------------------------------------
(* C12 *)

\* the entries of a map under serial ids of the holder's / the counterparty's parity
HolderEntries(m) == [s \in {k \in DOMAIN m : HolderParity(k)} |-> m[s]]
CounterpartyEntries(m) == [s \in {k \in DOMAIN m : ~HolderParity(k)} |-> m[s]]

\* the send events of the driver's local step
LocalStepEvents == {"send_tx_add_input", "send_tx_add_output", "send_tx_complete"}

\* C12: ownership frame.  A local step (send tx_add_input, tx_add_output or
\* tx_complete, under a serial id from generate_local_serial_id) that leaves
\* the negotiation running adds, removes or changes no entry of inputs or
\* outputs under a serial id of the counterparty's parity, and a successful
\* receive event adds, removes or changes no entry under a serial id of the
\* holder's parity.
C12_OwnershipFrame ==
    [][(Stepped /\ HasContext(state_machine) /\ HasContext(state_machine')) =>
        /\ last_event' \in LocalStepEvents =>
              /\ CounterpartyEntries(state_machine'.ctx.inputs)
                    = CounterpartyEntries(state_machine.ctx.inputs)
              /\ CounterpartyEntries(state_machine'.ctx.outputs)
                    = CounterpartyEntries(state_machine.ctx.outputs)
        /\ last_event' \in ReceiveEvents =>
              /\ HolderEntries(state_machine'.ctx.inputs)
                    = HolderEntries(state_machine.ctx.inputs)
              /\ HolderEntries(state_machine'.ctx.outputs)
                    = HolderEntries(state_machine.ctx.outputs)
      ]_vars

\* a local output was added beside a received input, and the input was then
\* removed by the peer beside the local output
C12_Witness ==
    /\ prev_event = "send_tx_add_output"
    /\ last_event = "receive_tx_remove_input"
    /\ ret = "Ok"
    /\ HasContext(state_machine)
    /\ HolderEntries(state_machine.ctx.outputs) # EmptyMap
    /\ state_machine.ctx.received_tx_add_input_count > 0

-----------------------------------------------------------------------------
(* C13 *)

\* a received tx_add_input that passes every check but the counter limit
OtherwiseValidAddInput(ctx, msg, confirmed) ==
    /\ (msg.serial_id % 2 = 0) # ctx.holder_is_initiator
    /\ ~U32Geq(msg.sequence, SEQ_LIMIT)
    /\ (ctx.require_confirmed_inputs => confirmed)
    /\ msg.prevtx_out < Len(msg.prevtx.output)
    /\ msg.prevtx.output[msg.prevtx_out + 1].script_pubkey
          \in {"p2wpkh", "p2wsh", "p2tr", "witness_v2"}
    /\ [txid |-> msg.prevtx.txid, vout |-> msg.prevtx_out] \notin ctx.prevtx_outpoints
    /\ msg.serial_id \notin DOMAIN ctx.inputs

\* a received tx_add_output that passes every check but the counter limit
OtherwiseValidAddOutput(ctx, msg) ==
    /\ (msg.serial_id % 2 = 0) # ctx.holder_is_initiator
    /\ ~SatLt(msg.sats, Sats(dust_value(msg.script)))
    /\ ~SatLt(TOTAL_BITCOIN_SUPPLY_SATOSHIS, msg.sats)
    /\ is_v0_p2wpkh(msg.script) \/ is_v0_p2wsh(msg.script) \/ is_v1_p2tr(msg.script)
    /\ msg.serial_id \notin DOMAIN ctx.outputs

\* what a public call that leaves the negotiation running does to the counters
C13_CounterStep ==
    (Stepped /\ HasContext(state_machine) /\ HasContext(state_machine')) =>
        LET c == state_machine.ctx
            d == state_machine'.ctx
        IN  /\ prev_event' = "receive_tx_add_input" =>
                  /\ d.received_tx_add_input_count = c.received_tx_add_input_count + 1
                  /\ d.received_tx_add_output_count = c.received_tx_add_output_count
            /\ prev_event' = "receive_tx_add_output" =>
                  /\ d.received_tx_add_output_count = c.received_tx_add_output_count + 1
                  /\ d.received_tx_add_input_count = c.received_tx_add_input_count
            /\ prev_event' \in {"receive_tx_remove_input", "receive_tx_remove_output"} =>
                  /\ d.received_tx_add_input_count = c.received_tx_add_input_count
                  /\ d.received_tx_add_output_count = c.received_tx_add_output_count
                  /\ Size(d.inputs) + Size(d.outputs) <= Size(c.inputs) + Size(c.outputs)

\* which otherwise-valid add is accepted: those up to the 4096th
C13_Limit ==
    LocalState(state_machine) =>
        LET c == state_machine.ctx
        IN  /\ \A msg \in TxAddInputMsgs, confirmed \in BOOLEAN :
                  OtherwiseValidAddInput(c, msg, confirmed) =>
                    LET r == StateMachine_receive_tx_add_input(state_machine, msg, confirmed)
                    IN  IF c.received_tx_add_input_count < 4096
                        THEN r.kind = "Ok"
                        ELSE r = Err("ReceivedTooManyTxAddInputs")
            /\ \A msg \in TxAddOutputMsgs :
                  OtherwiseValidAddOutput(c, msg) =>
                    LET r == StateMachine_receive_tx_add_output(state_machine, msg)
                    IN  IF c.received_tx_add_output_count < 4096
                        THEN r.kind = "Ok"
                        ELSE r = Err("ReceivedTooManyTxAddOutputs")

-----------------------------------------------------------------------------
(* C14 *)

\* after a public call that removed a received entry and left the peer's turn,
\* an add of the same serial id (for an input: and of the same outpoint) that
\* passes the checks on its own fields is accepted while the counter allows it
C14_ReuseStep ==
    (Stepped /\ HasContext(state_machine) /\ LocalState(state_machine')) =>
        LET c == state_machine.ctx
            d == state_machine'.ctx
        IN  /\ prev_event' = "receive_tx_remove_input" =>
                \A s \in (DOMAIN c.inputs) \ (DOMAIN d.inputs) :
                  \A msg \in TxAddInputMsgs, confirmed \in BOOLEAN :
                    ( /\ msg.serial_id = s
                      /\ OutPoint(msg.prevtx.txid, msg.prevtx_out) = c.inputs[s].previous_output
                      /\ ~U32Geq(msg.sequence, SEQ_LIMIT)
                      /\ (d.require_confirmed_inputs => confirmed)
                      /\ d.received_tx_add_input_count < 4096 )
                    => StateMachine_receive_tx_add_input(state_machine', msg, confirmed).kind = "Ok"
            /\ prev_event' = "receive_tx_remove_output" =>
                \A s \in (DOMAIN c.outputs) \ (DOMAIN d.outputs) :
                  \A msg \in TxAddOutputMsgs :
                    ( /\ msg.serial_id = s
                      /\ ~SatLt(msg.sats, Sats(dust_value(msg.script)))
                      /\ ~SatLt(TOTAL_BITCOIN_SUPPLY_SATOSHIS, msg.sats)
                      /\ is_v0_p2wpkh(msg.script) \/ is_v0_p2wsh(msg.script) \/ is_v1_p2tr(msg.script)
                      /\ d.received_tx_add_output_count < 4096 )
                    => StateMachine_receive_tx_add_output(state_machine', msg).kind = "Ok"

\* a received remove of any serial id that is not in its map aborts with SerialIdUnknown
C14_UnknownAny ==
    LocalState(state_machine) =>
        /\ \A msg \in TxRemoveInputMsgs :
              msg.serial_id \notin DOMAIN state_machine.ctx.inputs =>
                Store(StateMachine_receive_tx_remove_input(state_machine, msg))
                    = NegotiationAborted("SerialIdUnknown")
        /\ \A msg \in TxRemoveOutputMsgs :
              msg.serial_id \notin DOMAIN state_machine.ctx.outputs =>
                Store(StateMachine_receive_tx_remove_output(state_machine, msg))
                    = NegotiationAborted("SerialIdUnknown")

\* the same, for the serial ids of the counterparty's parity
C14_UnknownCounterparty ==
    LocalState(state_machine) =>
        /\ \A msg \in TxRemoveInputMsgs :
              (~HolderParity(msg.serial_id)
                  /\ msg.serial_id \notin DOMAIN state_machine.ctx.inputs) =>
                Store(StateMachine_receive_tx_remove_input(state_machine, msg))
                    = NegotiationAborted("SerialIdUnknown")
        /\ \A msg \in TxRemoveOutputMsgs :
              (~HolderParity(msg.serial_id)
                  /\ msg.serial_id \notin DOMAIN state_machine.ctx.outputs) =>
                Store(StateMachine_receive_tx_remove_output(state_machine, msg))
                    = NegotiationAborted("SerialIdUnknown")

\* C14 as claimed: re-use after removal.  After a successful received remove
\* of serial id s a received add of s (for an input: with the same outpoint)
\* is accepted when its other checks pass and the counter allows it; a
\* received remove of a serial id that is not in its map aborts with
\* SerialIdUnknown.
C14_Claim == []C14_UnknownAny /\ [][C14_ReuseStep]_vars

\* C14 as amended: the same, where the received remove that aborts with
\* SerialIdUnknown is one of a serial id of the counterparty's parity that is
\* not in its map (one of the holder's parity aborts with
\* IncorrectSerialIdParity, in the map or not).
C14_ReuseAfterRemoval == []C14_UnknownCounterparty /\ [][C14_ReuseStep]_vars

\* an input was received, removed and received again
C14_Witness ==
    /\ steps = 3
    /\ LocalState(state_machine)
    /\ prev_event = "receive_tx_add_input"
    /\ Size(state_machine.ctx.inputs) = 1
    /\ state_machine.ctx.received_tx_add_input_count \in {2, PreCount + 2}

-----------------------------------------------------------------------------
(* C15 *)

\* the outpoints of the inputs that were received and not removed
ReceivedOutpoints ==
    {state_machine.ctx.inputs[s].previous_output :
        s \in {k \in DOMAIN state_machine.ctx.inputs : origin.inputs[k] = "remote"}}

\* C15 as claimed: duplicate outpoint.  A received tx_add_input whose outpoint
\* is the outpoint of a received input that was not removed aborts with
\* PrevTxOutInvalid, whatever serial id it carries.
C15_Claim ==
    LocalState(state_machine) =>
        \A msg \in TxAddInputMsgs, confirmed \in BOOLEAN :
            OutPoint(msg.prevtx.txid, msg.prevtx_out) \in ReceivedOutpoints =>
                Store(StateMachine_receive_tx_add_input(state_machine, msg, confirmed))
                    = NegotiationAborted("PrevTxOutInvalid")

\* C15 as amended: such a tx_add_input always aborts, and the reason is
\* PrevTxOutInvalid whenever the message passes the checks made before the
\* outpoint is looked up (serial id of the counterparty's parity, sequence
\* below 0xFFFFFFFE, confirmation when required): whatever serial id of the
\* counterparty's parity it carries, the earlier input's own id included.
C15_DuplicateOutpoint ==
    LocalState(state_machine) =>
        \A msg \in TxAddInputMsgs, confirmed \in BOOLEAN :
            OutPoint(msg.prevtx.txid, msg.prevtx_out) \in ReceivedOutpoints =>
                LET after == Store(StateMachine_receive_tx_add_input(state_machine, msg, confirmed))
                IN  /\ after.tag = "NegotiationAborted"
                    /\ ( /\ ~HolderParity(msg.serial_id)
                         /\ ~U32Geq(msg.sequence, SEQ_LIMIT)
                         /\ (state_machine.ctx.require_confirmed_inputs => confirmed) )
                       => after = NegotiationAborted("PrevTxOutInvalid")

\* the peer's turn, with a received input in the map and its outpoint recorded
C15_Witness ==
    /\ LocalState(state_machine)
    /\ ReceivedOutpoints # {}
    /\ ReceivedOutpoints \subseteq state_machine.ctx.prevtx_outpoints
    /\ prev_event = "receive_tx_add_input"

-----------------------------------------------------------------------------
(* C16 *)

\* C16: outbound order of the driver.  A public call pops at most one pending
\* contribution and never adds one; a local step that sends tx_add_input pops
\* the last pending input, one that sends tx_add_output runs only with no
\* pending input and pops the last pending output, and one that sends
\* tx_complete runs only with both lists empty; what is sent is popped, so it
\* is not sent again.
C16_OutboundOrder ==
    [][Stepped =>
        /\ inputs_to_contribute' \in {inputs_to_contribute, Pop(inputs_to_contribute)}
        /\ outputs_to_contribute' \in {outputs_to_contribute, Pop(outputs_to_contribute)}
        /\ Len(inputs_to_contribute') + Len(outputs_to_contribute')
              >= Len(inputs_to_contribute) + Len(outputs_to_contribute) - 1
        /\ last_event' = "send_tx_add_input" =>
              /\ inputs_to_contribute # <<>>
              /\ inputs_to_contribute' = Pop(inputs_to_contribute)
        /\ last_event' = "send_tx_add_output" =>
              /\ inputs_to_contribute = <<>>
              /\ outputs_to_contribute # <<>>
              /\ outputs_to_contribute' = Pop(outputs_to_contribute)
        /\ last_event' = "send_tx_complete" =>
              /\ inputs_to_contribute = <<>>
              /\ outputs_to_contribute = <<>>
        /\ last_event' \notin SendEvents =>
              UNCHANGED <<inputs_to_contribute, outputs_to_contribute>>
      ]_vars

\* the driver sent its pending output in one call and tx_complete in the next
C16_Witness ==
    /\ steps >= 2
    /\ last_event = "send_tx_complete"
    /\ ret = "TxComplete"
    /\ HasContext(state_machine)
    /\ \E s \in DOMAIN origin.outputs : origin.outputs[s] = "local"
    /\ ~is_initiator

-----------------------------------------------------------------------------
(* C17 *)

\* C17: local input contribution.  A local step that runs with a pending
\* input (so it sends tx_add_input) returns the TxAddInput message and leaves
\* the state LocalChange, with exactly one more entry of the holder's parity in
\* inputs, which describes the popped input; it does not abort.
C17_Claim ==
    [][(Stepped /\ last_event' = "send_tx_add_input") =>
        /\ ret' = "TxAddInput"
        /\ state_machine'.tag = "LocalChange"
        /\ \E s \in DOMAIN state_machine'.ctx.inputs :
              /\ HolderParity(s)
              /\ state_machine'.ctx.inputs[s]
                    = inputs_to_contribute[Len(inputs_to_contribute)]
              /\ HolderEntries(state_machine'.ctx.inputs)
                    = MapInsert(HolderEntries(state_machine.ctx.inputs), s,
                                state_machine'.ctx.inputs[s])
              /\ s \notin DOMAIN state_machine.ctx.inputs
      ]_vars

-----------------------------------------------------------------------------
(* C18 *)

\* the messages a public call can return
OutboundMessages == {"TxAddInput", "TxAddOutput", "TxComplete"}

\* the states the constructor may rest in between public calls
C18_RestingStates ==
    state_machine.tag \in {"LocalChange", "LocalTxComplete",
                           "NegotiationComplete", "NegotiationAborted"}

\* a public call on a change message that succeeds returns one outbound message
C18_OneMessage ==
    (Stepped /\ prev_event' \in ChangeReceives /\ ret' # "Err")
        => ret' \in OutboundMessages /\ last_event' \in SendEvents

\* C18: strict alternation at the driver.  Every public receive_* call that
\* succeeds on a change message returns exactly one outbound message, and
\* between public calls the state is LocalChange, LocalTxComplete,
\* NegotiationComplete or NegotiationAborted: never RemoteChange,
\* RemoteTxComplete or Indeterminate.
C18_Claim == []C18_RestingStates /\ [][C18_OneMessage]_vars

-----------------------------------------------------------------------------
(* C19 *)

\* the state is the one new returned: no public call was made yet
JustConstructed == steps = 0 /\ last_from = "none"

\* C19: construction.  For a non-initiator new returns no message and leaves
\* LocalChange with empty maps and zero counters; for an initiator new runs
\* one local step from RemoteChange and returns its message, whatever the
\* pending contributions are, leaving LocalChange when a contribution was sent
\* and LocalTxComplete when there was nothing to contribute.
C19_Claim ==
    JustConstructed =>
        IF ~is_initiator
        THEN /\ ret = "None"
             /\ state_machine.tag = "LocalChange"
             /\ state_machine.ctx.inputs = EmptyMap
             /\ state_machine.ctx.outputs = EmptyMap
             /\ state_machine.ctx.prevtx_outpoints = {}
             /\ state_machine.ctx.received_tx_add_input_count = 0
             /\ state_machine.ctx.received_tx_add_output_count = 0
        ELSE \/ ret \in {"TxAddInput", "TxAddOutput"} /\ state_machine.tag = "LocalChange"
             \/ ret = "TxComplete" /\ state_machine.tag = "LocalTxComplete"

-----------------------------------------------------------------------------
(* C20 *)

\* C20: local serial-id collision.  When it is the holder's turn and the
\* serial id generated for a tx_add_input (tx_add_output) is already the key
\* of a local entry of inputs (outputs), the send aborts the negotiation with
\* DuplicateSerialId and the earlier entry is not replaced.
C20_Claim ==
    RemoteState(state_machine) =>
        /\ \A msg \in SentTxAddInputMsgs :
              ( /\ msg.serial_id \in LocalSerialIds
                /\ msg.serial_id \in DOMAIN state_machine.ctx.inputs
                /\ origin.inputs[msg.serial_id] = "local" )
              => Store(StateMachine_send_tx_add_input(state_machine, msg))
                    = NegotiationAborted("DuplicateSerialId")
        /\ \A msg \in TxAddOutputMsgs :
              ( /\ msg.serial_id \in LocalSerialIds
                /\ msg.serial_id \in DOMAIN state_machine.ctx.outputs
                /\ origin.outputs[msg.serial_id] = "local" )
              => Store(StateMachine_send_tx_add_output(state_machine, msg))
                    = NegotiationAborted("DuplicateSerialId")

-----------------------------------------------------------------------------
(* C21 *)

\* the serial id with its low bit flipped
FlipId(s) == IF s % 2 = 0 THEN s + 1 ELSE s - 1
FlipMap(m) == [s \in {FlipId(k) : k \in DOMAIN m} |-> m[FlipId(s)]]
FlipMsg(msg) == [msg EXCEPT !.serial_id = FlipId(@)]

\* the same negotiation seen with the roles swapped: holder_is_initiator
\* negated and the low bit of every serial id flipped
MirrorCtx(ctx) ==
    [ctx EXCEPT !.holder_is_initiator = ~@,
                !.inputs = FlipMap(@),
                !.outputs = FlipMap(@)]
MirrorState(sm) == IF HasContext(sm) THEN [sm EXCEPT !.ctx = MirrorCtx(@)] ELSE sm

\* the outcome of a run that ends in state sm: the kind of the terminal state
\* and, on completion, the transaction
Outcome(sm) ==
    IF sm.tag = "NegotiationComplete" THEN sm
    ELSE IF HasContext(sm) THEN [tag |-> "running"]
    ELSE [tag |-> sm.tag]

\* SpecMirror: the run of SpecSM and, beside it, the same run with the roles
\* swapped.  Both machines take every event; the mirrored machine takes it
\* with the low bit of its serial id flipped.
InitMirror ==
    /\ InitSMNew
    /\ inputs_to_contribute = <<>>
    /\ outputs_to_contribute = <<>>
    /\ origin = EmptyOrigin
    /\ steps = 0
    /\ mirror = MirrorState(state_machine)
    /\ rand_bytes = <<>>
    /\ peer = <<>>
    /\ in_flight = <<>>

\* the run goes on while its machine holds a context
DrivableBoth == steps < MaxEvents /\ HasContext(state_machine)

DriveBoth(event, serial_id, result, mirrored) ==
    /\ state_machine' = Store(result)
    /\ mirror' = Store(mirrored)
    /\ ret' = result.kind
    /\ last_from' = state_machine.tag
    /\ prev_event' = last_event
    /\ last_event' = event
    /\ origin' = OriginAfter(origin, event, serial_id, Store(result))
    /\ steps' = steps + 1
    /\ UNCHANGED <<inputs_to_contribute, outputs_to_contribute, is_initiator, rand_bytes,
                   peer, in_flight>>

MirrorReceiveTxAddInput ==
    /\ DrivableBoth
    /\ \E msg \in TxAddInputMsgs, confirmed \in BOOLEAN :
         DriveBoth("receive_tx_add_input", msg.serial_id,
                   StateMachine_receive_tx_add_input(state_machine, msg, confirmed),
                   StateMachine_receive_tx_add_input(mirror, FlipMsg(msg), confirmed))

MirrorReceiveTxAddOutput ==
    /\ DrivableBoth
    /\ \E msg \in TxAddOutputMsgs :
         DriveBoth("receive_tx_add_output", msg.serial_id,
                   StateMachine_receive_tx_add_output(state_machine, msg),
                   StateMachine_receive_tx_add_output(mirror, FlipMsg(msg)))

MirrorReceiveTxRemoveInput ==
    /\ DrivableBoth
    /\ \E msg \in TxRemoveInputMsgs :
         DriveBoth("receive_tx_remove_input", msg.serial_id,
                   StateMachine_receive_tx_remove_input(state_machine, msg),
                   StateMachine_receive_tx_remove_input(mirror, FlipMsg(msg)))

MirrorReceiveTxRemoveOutput ==
    /\ DrivableBoth
    /\ \E msg \in TxRemoveOutputMsgs :
         DriveBoth("receive_tx_remove_output", msg.serial_id,
                   StateMachine_receive_tx_remove_output(state_machine, msg),
                   StateMachine_receive_tx_remove_output(mirror, FlipMsg(msg)))

MirrorSendTxAddInput ==
    /\ DrivableBoth
    /\ \E msg \in {m \in SentTxAddInputMsgs : m.serial_id \in LocalSerialIds} :
         DriveBoth("send_tx_add_input", msg.serial_id,
                   StateMachine_send_tx_add_input(state_machine, msg),
                   StateMachine_send_tx_add_input(mirror, FlipMsg(msg)))

MirrorSendTxAddOutput ==
    /\ DrivableBoth
    /\ \E msg \in {m \in TxAddOutputMsgs : m.serial_id \in LocalSerialIds} :
         DriveBoth("send_tx_add_output", msg.serial_id,
                   StateMachine_send_tx_add_output(state_machine, msg),
                   StateMachine_send_tx_add_output(mirror, FlipMsg(msg)))

MirrorSendTxRemoveInput ==
    /\ DrivableBoth
    /\ \E msg \in {m \in TxRemoveInputMsgs : m.serial_id \in LocalSerialIds} :
         DriveBoth("send_tx_remove_input", msg.serial_id,
                   StateMachine_send_tx_remove_input(state_machine, msg),
                   StateMachine_send_tx_remove_input(mirror, FlipMsg(msg)))

MirrorSendTxRemoveOutput ==
    /\ DrivableBoth
    /\ \E msg \in {m \in TxRemoveOutputMsgs : m.serial_id \in LocalSerialIds} :
         DriveBoth("send_tx_remove_output", msg.serial_id,
                   StateMachine_send_tx_remove_output(state_machine, msg),
                   StateMachine_send_tx_remove_output(mirror, FlipMsg(msg)))

MirrorReceiveTxComplete ==
    /\ DrivableBoth
    /\ \E result \in StateMachine_receive_tx_complete(state_machine),
          mirrored \in StateMachine_receive_tx_complete(mirror) :
         DriveBoth("receive_tx_complete", 0, result, mirrored)

MirrorSendTxComplete ==
    /\ DrivableBoth
    /\ \E result \in StateMachine_send_tx_complete(state_machine),
          mirrored \in StateMachine_send_tx_complete(mirror) :
         DriveBoth("send_tx_complete", 0, result, mirrored)

NextMirror ==
    \/ MirrorReceiveTxAddInput
    \/ MirrorReceiveTxAddOutput
    \/ MirrorReceiveTxRemoveInput
    \/ MirrorReceiveTxRemoveOutput
    \/ MirrorSendTxAddInput
    \/ MirrorSendTxAddOutput
    \/ MirrorSendTxRemoveInput
    \/ MirrorSendTxRemoveOutput
    \/ MirrorReceiveTxComplete
    \/ MirrorSendTxComplete

SpecMirror == InitMirror /\ [][NextMirror]_vars

\* the states a tx_complete can lead to (one per outcome the build can produce)
AfterReceiveTxComplete(sm) == {Store(r) : r \in StateMachine_receive_tx_complete(sm)}
AfterSendTxComplete(sm) == {Store(r) : r \in StateMachine_send_tx_complete(sm)}

\* C21 as claimed: symmetry.  With holder_is_initiator negated and the low
\* bit of every serial id flipped, a run of events yields the same outcome: the
\* same kind of terminal state and, on completion, the same transaction.
C21_Claim == Outcome(mirror) = Outcome(state_machine)

\* the states after a tx_complete agree with those of the mirrored run, but
\* for the common-fields fee only a non-initiator holder asks for: there the
\* non-initiator holder aborts with InsufficientFees where the initiator holder
\* completes
SameButCommonFieldsFee(of_initiator, of_non_initiator) ==
    \/ of_non_initiator = {MirrorState(s) : s \in of_initiator}
    \/ /\ of_non_initiator = {NegotiationAborted("InsufficientFees")}
       /\ \A s \in of_initiator : s.tag = "NegotiationComplete"
       /\ of_initiator # {}

MirroredTxComplete(after, after_mirror) ==
    IF is_initiator
    THEN SameButCommonFieldsFee(after, after_mirror)
    ELSE SameButCommonFieldsFee(after_mirror, after)

\* C21 as amended: started from a state and from its mirror image, a run of
\* change events and tx_completes that do not finalize keeps the two machines
\* mirror images of each other, and a change event that aborts one aborts the
\* other for the same reason.  The tx_complete that finalizes has the same
\* outcomes on both sides with one exception: the non-initiator holder also
\* asks the common-fields fee of its peer, so it aborts with InsufficientFees
\* in some runs that the initiator holder completes; at feerate 0 the outcomes
\* are the same.
C21_MirrorSymmetry ==
    /\ HasContext(state_machine) =>
          /\ mirror = MirrorState(state_machine)
          /\ MirroredTxComplete(AfterReceiveTxComplete(state_machine),
                                AfterReceiveTxComplete(mirror))
          /\ MirroredTxComplete(AfterSendTxComplete(state_machine),
                                AfterSendTxComplete(mirror))
          /\ state_machine.ctx.feerate_sat_per_kw = 0 =>
                /\ AfterReceiveTxComplete(mirror)
                      = {MirrorState(s) : s \in AfterReceiveTxComplete(state_machine)}
                /\ AfterSendTxComplete(mirror)
                      = {MirrorState(s) : s \in AfterSendTxComplete(state_machine)}
    /\ (~HasContext(state_machine) /\ last_event \in ChangeReceives \cup ChangeSends)
          => mirror = state_machine

\* after two events the machines are mirror images, and a received
\* tx_complete finalizes the negotiation for both, at a feerate above 0 and
\* with a contribution of the peer
C21_Witness ==
    /\ steps = 2
    /\ state_machine.tag = "LocalTxComplete"
    /\ mirror = MirrorState(state_machine)
    /\ mirror # state_machine
    /\ state_machine.ctx.feerate_sat_per_kw > 0
    /\ state_machine.ctx.received_tx_add_input_count \in 1 .. 2
    /\ \E s \in AfterReceiveTxComplete(state_machine) : s.tag = "NegotiationComplete"
    /\ \E s \in AfterReceiveTxComplete(mirror) : s.tag = "NegotiationComplete"

-----------------------------------------------------------------------------
(* SpecBuild: build_transaction on contexts drawn from bounded sets *)

BuildFeerates == {0, 253, 2000}
\* the peer's inputs: n inputs of `value` sat each
BuildPeerInputs == {[n |-> 0, value |-> 0]} \cup [n : {1, 7, 253}, value : {36, 10000}]
\* the peer's outputs: n p2wpkh outputs of 330 sat each
BuildPeerOutputs == [n : {0, 1, 2}, value : {330}, script : {"p2wpkh"}]
\* the holder's inputs and outputs
BuildOwnInputs == [n : {0, 1}, value : {10000}]
BuildOwnOutputs ==
    {[n |-> 0, value |-> 0, script |-> "p2tr"],
     [n |-> 1, value |-> 330, script |-> "p2tr"],
     [n |-> 1, value |-> 20000, script |-> "p2tr"],
     [n |-> 1, value |-> 330, script |-> "data_100k"],
     [n |-> 253, value |-> 330, script |-> "p2wpkh"]}

\* n serial ids of one parity
IdsFrom(first_id, n) == {first_id + 2 * i : i \in 0 .. n - 1}

\* inputs as receive_tx_add_input / send_tx_add_input store them, each
\* spending its own outpoint
BuildInputs(first_id, c) ==
    [s \in IdsFrom(first_id, c.n) |->
        TxInputWithPrevOutput(OutPoint(100 + s, 0), ENABLE_RBF_NO_LOCKTIME,
                              TxOut(Sats(c.value), "p2wpkh"))]
BuildOutputs(first_id, c) ==
    [s \in IdsFrom(first_id, c.n) |-> TxOut(Sats(c.value), c.script)]

\* the context after the peer added peer_in and peer_out and the holder
\* own_in and own_out
BuildContext(initiator, feerate, peer_in, peer_out, own_in, own_out) ==
    LET peer_id == IF initiator THEN 1 ELSE 0
        own_id == IF initiator THEN 0 ELSE 1
        received == BuildInputs(peer_id, peer_in)
    IN  [StateMachine_new(feerate, FALSE, initiator, BaseTx).ctx EXCEPT
            !.inputs = received @@ BuildInputs(own_id, own_in),
            !.outputs = BuildOutputs(peer_id, peer_out) @@ BuildOutputs(own_id, own_out),
            !.prevtx_outpoints = {received[s].previous_output : s \in DOMAIN received},
            !.received_tx_add_input_count = peer_in.n,
            !.received_tx_add_output_count = peer_out.n]

BuildOrigin(ctx) ==
    [inputs |-> [s \in DOMAIN ctx.inputs |->
                    IF is_valid_counterparty_serial_id(ctx, s) THEN "remote" ELSE "local"],
     outputs |-> [s \in DOMAIN ctx.outputs |->
                    IF is_valid_counterparty_serial_id(ctx, s) THEN "remote" ELSE "local"]]

\* one tx_complete before the end: the holder sent its tx_complete
\* (LocalTxComplete) or received the peer's (RemoteTxComplete)
InitBuild ==
    \E initiator \in BOOLEAN, feerate \in BuildFeerates, holder_sent \in BOOLEAN,
       peer_in \in BuildPeerInputs, peer_out \in BuildPeerOutputs,
       own_in \in BuildOwnInputs, own_out \in BuildOwnOutputs :
        LET ctx == BuildContext(initiator, feerate, peer_in, peer_out, own_in, own_out)
        IN  /\ state_machine = IF holder_sent THEN LocalTxComplete(ctx)
                               ELSE RemoteTxComplete(ctx)
            /\ is_initiator = initiator
            /\ last_event = IF holder_sent THEN "send_tx_complete" ELSE "receive_tx_complete"
            /\ prev_event = "none"
            /\ last_from = IF holder_sent THEN "RemoteChange" ELSE "LocalChange"
            /\ ret = "Ok"
            /\ origin = BuildOrigin(ctx)
            /\ inputs_to_contribute = <<>>
            /\ outputs_to_contribute = <<>>
            /\ steps = 0
            /\ mirror = Indeterminate
            /\ rand_bytes = <<>>
            /\ peer = <<>>
            /\ in_flight = <<>>

BuildReceiveTxComplete ==
    /\ steps < MaxEvents
    /\ HasContext(state_machine)
    /\ \E result \in StateMachine_receive_tx_complete(state_machine) :
         Drive("receive_tx_complete", 0, result)

BuildSendTxComplete ==
    /\ steps < MaxEvents
    /\ HasContext(state_machine)
    /\ \E result \in StateMachine_send_tx_complete(state_machine) :
         Drive("send_tx_complete", 0, result)

NextBuild ==
    \/ BuildReceiveTxComplete
    \/ BuildSendTxComplete

SpecBuild == InitBuild /\ [][NextBuild]_vars

\* the step is the tx_complete that calls build_transaction
Finalizes ==
    \/ state_machine.tag = "LocalTxComplete" /\ last_event' = "receive_tx_complete"
    \/ state_machine.tag = "RemoteTxComplete" /\ last_event' = "send_tx_complete"

\* what the counterparty contributed to ctx
PeerInputs(ctx) == {s \in DOMAIN ctx.inputs : is_valid_counterparty_serial_id(ctx, s)}
PeerOutputs(ctx) == {s \in DOMAIN ctx.outputs : is_valid_counterparty_serial_id(ctx, s)}
PeerInputValue(ctx) == SumOver(InputValues(ctx), PeerInputs(ctx))
PeerOutputValue(ctx) == SumOver(OutputValues(ctx), PeerOutputs(ctx))


\* the weight build_transaction counts for the counterparty's contributions
PeerWeight(ctx) ==
    Cardinality(PeerInputs(ctx)) * INPUT_WEIGHT + Cardinality(PeerOutputs(ctx)) * OUTPUT_WEIGHT

-----------------------------------------------------------------------------
(* C22 *)

\* a tx_complete that builds the transaction found the counterparty's fee
\* (its inputs minus its outputs) at least feerate * weight / 1000
C22_FeeIntentStep ==
    (Finalizes /\ state_machine'.tag = "NegotiationComplete") =>
        LET ctx == state_machine.ctx
        IN  /\ ~SatLt(PeerInputValue(ctx), PeerOutputValue(ctx))
            /\ ~SatLt(SatSub(PeerInputValue(ctx), PeerOutputValue(ctx)),
                      Sats((ctx.feerate_sat_per_kw * PeerWeight(ctx)) \div 1000))

\* a contribution rejected with InsufficientFees is not accepted after the
\* counterparty adds an output, which adds weight and no fee
C22_NoAcceptAfterWeight ==
    (HasContext(state_machine)
        /\ build_transaction(state_machine.ctx) = {Err("InsufficientFees")}) =>
        \A msg \in TxAddOutputMsgs :
            LET added == receive_tx_add_output(state_machine.ctx, msg.serial_id,
                                               TxOut(msg.sats, msg.script))
            IN  added.kind = "Ok" =>
                    \A built \in build_transaction(added.val) : built.kind # "Ok"

\* C22: fee intent.  build_transaction succeeds only if the counterparty's
\* fee is at least feerate_sat_per_kw * counterparty_weight / 1000, and a
\* contribution rejected with InsufficientFees is not accepted after the
\* counterparty adds further weight without adding fee.
C22_Claim == []C22_NoAcceptAfterWeight /\ [][C22_FeeIntentStep]_vars


-----------------------------------------------------------------------------
(* C23 *)

\* C23: balance check.  The tx_complete that builds the transaction ends in
\* OutputsExceedInputs exactly when the value of the inputs the counterparty
\* contributed is less than the value of the outputs the counterparty
\* contributed; the holder's own inputs and outputs do not enter.
C23_Claim ==
    [][Finalizes =>
          ((state_machine' = NegotiationAborted("OutputsExceedInputs"))
              <=> SatLt(PeerInputValue(state_machine.ctx),
                        PeerOutputValue(state_machine.ctx)))]_vars


-----------------------------------------------------------------------------
(* C24 *)
\* SpecReceive: the StateMachine driven by the peer's changes, each answered
\* by the holder's tx_complete
NextReceive ==
    \/ SMReceiveTxAddInput
    \/ SMReceiveTxAddOutput
    \/ SMReceiveTxRemoveInput
    \/ SMReceiveTxRemoveOutput
    \/ SMSendTxComplete

SpecReceive == InitSM /\ [][NextReceive]_vars

\* the checks of a received tx_add_input in the order claimed, each with
\* whether it fails and the reason it gives
AddInputChecks(ctx, msg, confirmed) ==
    LET has_prevout == msg.prevtx_out < Len(msg.prevtx.output)
    IN  << <<ctx.holder_is_initiator = (msg.serial_id % 2 = 0), "IncorrectSerialIdParity">>,
           <<U32Geq(msg.sequence, U32(65535, 65534)), "IncorrectInputSequenceValue">>,
           <<ctx.require_confirmed_inputs /\ ~confirmed, "InputsNotConfirmed">>,
           <<~has_prevout, "PrevTxOutInvalid">>,
           <<has_prevout /\ msg.prevtx.output[msg.prevtx_out + 1].script_pubkey
                              \notin {"p2wpkh", "p2wsh", "p2tr", "witness_v2"},
             "PrevTxOutInvalid">>,
           <<[txid |-> msg.prevtx.txid, vout |-> msg.prevtx_out] \in ctx.prevtx_outpoints,
             "PrevTxOutInvalid">>,
           <<ctx.received_tx_add_input_count + 1 > 4096, "ReceivedTooManyTxAddInputs">>,
           <<msg.serial_id \in DOMAIN ctx.inputs, "DuplicateSerialId">> >>

\* the checks of a received tx_add_output in the order claimed
AddOutputChecks(ctx, msg) ==
    << <<ctx.holder_is_initiator = (msg.serial_id % 2 = 0), "IncorrectSerialIdParity">>,
       <<ctx.received_tx_add_output_count + 1 > 4096, "ReceivedTooManyTxAddOutputs">>,
       <<SatLt(msg.sats, Sats(dust_value(msg.script))), "ExceededDustLimit">>,
       <<SatLt([hi |-> 2100000, lo |-> 0], msg.sats), "ExceededMaximumSatsAllowed">>,
       <<msg.script \notin {"p2wpkh", "p2wsh", "p2tr"}, "InvalidOutputScript">>,
       <<msg.serial_id \in DOMAIN ctx.outputs, "DuplicateSerialId">> >>

Failing(checks) == {i \in DOMAIN checks : checks[i][1]}

\* the reason of the first failing check, "None" when no check fails
FirstFailing(checks) ==
    IF Failing(checks) = {} THEN "None"
    ELSE checks[CHOOSE i \in Failing(checks) : \A j \in Failing(checks) : i <= j][2]

-----------------------------------------------------------------------------
(* C25 *)

\* the counterparty's weight as claimed: 160 per input and
\* (8 + script length) * 4 per output
ClaimedPeerWeight(ctx) ==
    160 * Cardinality(PeerInputs(ctx))
      + SumOver([s \in DOMAIN ctx.outputs |->
                    Sats((8 + script_len(ctx.outputs[s].script_pubkey)) * 4)],
                PeerOutputs(ctx)).lo

\* the required fee as claimed
ClaimedRequiredFee(ctx) ==
    (ctx.feerate_sat_per_kw * 1000) \div ClaimedPeerWeight(ctx)
      + (IF ctx.holder_is_initiator THEN 0 ELSE (ctx.feerate_sat_per_kw * 1000) \div 42)

\* the counterparty's fee: its inputs minus its outputs, 0 when negative
ActualPeerFee(ctx) ==
    IF SatLt(PeerInputValue(ctx), PeerOutputValue(ctx)) THEN Sats(0)
    ELSE SatSub(PeerInputValue(ctx), PeerOutputValue(ctx))

\* the tx_complete that builds the transaction gets past balance, cardinality
\* and weight
ReachesFeeCheck ==
    /\ Finalizes
    /\ state_machine' \notin {NegotiationAborted("OutputsExceedInputs"),
                              NegotiationAborted("ExceededNumberOfInputsOrOutputs"),
                              NegotiationAborted("TransactionTooLarge")}

\* C25: fee-share check.  When the earlier checks pass (and the counterparty
\* contributed some weight), build_transaction returns InsufficientFees
\* exactly when the counterparty's fee is less than the required fee
\* feerate * 1000 / weight, with weight 160 per input and
\* (8 + script length) * 4 per output, plus feerate * 1000 / 42 when the
\* holder is the non-initiator; otherwise it returns the transaction.
C25_Claim ==
    [][(ReachesFeeCheck /\ ClaimedPeerWeight(state_machine.ctx) > 0) =>
          IF SatLt(ActualPeerFee(state_machine.ctx),
                   Sats(ClaimedRequiredFee(state_machine.ctx)))
          THEN state_machine' = NegotiationAborted("InsufficientFees")
          ELSE state_machine' = NegotiationComplete(tx_to_validate(state_machine.ctx))]_vars


-----------------------------------------------------------------------------
(* C26 *)

\* more than 252 entries in inputs or in outputs, both peers' counted
TooManyEntries(ctx) ==
    Cardinality(DOMAIN ctx.inputs) > 252 \/ Cardinality(DOMAIN ctx.outputs) > 252

\* the outputs of all contributors are worth more than the inputs of all
OutputsWorthMore(ctx) ==
    SatLt(SumOver([s \in DOMAIN ctx.inputs |-> ctx.inputs[s].prev_output.value],
                  DOMAIN ctx.inputs),
          SumOver([s \in DOMAIN ctx.outputs |-> ctx.outputs[s].value],
                  DOMAIN ctx.outputs))

\* the state the tx_complete that builds the transaction must end in when
\* one of the first three checks fails, in their order
C26_OrderStep ==
    Finalizes =>
        LET ctx == state_machine.ctx
        IN  /\ OutputsWorthMore(ctx)
                => state_machine' = NegotiationAborted("OutputsExceedInputs")
            /\ (~OutputsWorthMore(ctx) /\ TooManyEntries(ctx))
                => state_machine' = NegotiationAborted("ExceededNumberOfInputsOrOutputs")
            /\ (~OutputsWorthMore(ctx) /\ ~TooManyEntries(ctx) /\ tx_weight(ctx) > 400000)
                => state_machine' = NegotiationAborted("TransactionTooLarge")
            /\ (~OutputsWorthMore(ctx) /\ ~TooManyEntries(ctx) /\ tx_weight(ctx) <= 400000)
                => state_machine' \notin {NegotiationAborted("OutputsExceedInputs"),
                                          NegotiationAborted("ExceededNumberOfInputsOrOutputs"),
                                          NegotiationAborted("TransactionTooLarge")}
            /\ (state_machine' # NegotiationAborted("OutputsExceedInputs"))
                => ((state_machine' = NegotiationAborted("ExceededNumberOfInputsOrOutputs"))
                       <=> TooManyEntries(ctx))
            /\ state_machine'.tag = "NegotiationComplete" => ~TooManyEntries(ctx)

\* C26: cardinality and check order.  build_transaction evaluates balance,
\* then cardinality, then weight, then fee share and returns the reason of
\* the first failing check; with the balance check passing it returns
\* ExceededNumberOfInputsOrOutputs exactly when inputs or outputs has more
\* than 252 entries, so no completed transaction has more than 252 of either.
C26_CheckOrder == [][C26_OrderStep]_vars

\* the tx_complete that builds the transaction found more than 252 entries
C26_Witness ==
    /\ steps = 1
    /\ last_event \in TxCompletes
    /\ last_from \in {"LocalTxComplete", "RemoteTxComplete"}
    /\ state_machine = NegotiationAborted("ExceededNumberOfInputsOrOutputs")


-----------------------------------------------------------------------------
(* SpecSerial: generate_local_serial_id on bytes of the entropy source *)

\* the first 8 bytes of get_secure_random_bytes()
RandBytes == [1 .. 8 -> {0, 1, 255}]

\* mutant: the bytes are read least significant first
u64_from_be_bytes_LittleEndian(b) ==
    <<b[8] * 256 + b[7], b[6] * 256 + b[5], b[4] * 256 + b[3], b[2] * 256 + b[1]>>

\* u64::from_be_bytes: the u64 as four 16-bit limbs, the most significant first
u64_from_be_bytes(b) ==
    <<b[1] * 256 + b[2], b[3] * 256 + b[4], b[5] * 256 + b[6], b[7] * 256 + b[8]>>

\* generate_local_serial_id on the 64-bit id: is_valid_for_initiator and
\* serial_id ^= 1 read and write the lowest limb only
local_serial_id(bytes, initiator) ==
    LET serial_id == u64_from_be_bytes(SubSeq(bytes, 1, 8))
    IN  [serial_id EXCEPT ![4] = generate_local_serial_id(@, initiator)]

InitSerial ==
    \E initiator \in BOOLEAN, bytes \in RandBytes :
        /\ state_machine = StateMachine_new(253, FALSE, initiator, BaseTx)
        /\ is_initiator = initiator
        /\ rand_bytes = bytes
        /\ peer = <<>>
        /\ in_flight = <<>>
        /\ last_event = "none"
        /\ prev_event = "none"
        /\ last_from = "none"
        /\ ret = "None"
        /\ inputs_to_contribute = <<>>
        /\ outputs_to_contribute = <<>>
        /\ origin = EmptyOrigin
        /\ steps = 0
        /\ mirror = Indeterminate

GenerateLocalSerialId ==
    /\ steps = 0
    /\ ret' = local_serial_id(rand_bytes, is_initiator)
    /\ last_event' = "generate_local_serial_id"
    /\ steps' = 1
    /\ UNCHANGED <<state_machine, inputs_to_contribute, outputs_to_contribute, is_initiator,
                   origin, prev_event, last_from, mirror, rand_bytes, peer, in_flight>>

NextSerial == GenerateLocalSerialId

SpecSerial == InitSerial /\ [][NextSerial]_vars

-----------------------------------------------------------------------------
(* C27 *)

\* the 8 bytes of a u64 given by its limbs, the most significant first
BytesOf(limbs) ==
    [i \in 1 .. 8 |-> IF i % 2 = 1 THEN limbs[(i + 1) \div 2] \div 256
                      ELSE limbs[i \div 2] % 256]

\* C27: local serial-id generation.  For every 8 bytes r of the entropy
\* source generate_local_serial_id returns a 64-bit id that is even when the
\* holder is the initiator and odd otherwise and that equals r, read
\* big-endian, in every bit except possibly bit 0; it returns r itself when r
\* already has the holder's parity.
C27_LocalSerialId ==
    last_event = "generate_local_serial_id" =>
        /\ (BytesOf(ret)[8] % 2 = 0) <=> is_initiator
        /\ \A i \in 1 .. 7 : BytesOf(ret)[i] = rand_bytes[i]
        /\ BytesOf(ret)[8] \div 2 = rand_bytes[8] \div 2
        /\ ((rand_bytes[8] % 2 = 0) <=> is_initiator) => BytesOf(ret) = rand_bytes

\* an initiator drew an odd value with high bits set and got it back with
\* bit 0 cleared
C27_Witness ==
    /\ last_event = "generate_local_serial_id"
    /\ is_initiator
    /\ rand_bytes[1] = 255
    /\ rand_bytes[8] = 255
    /\ BytesOf(ret)[8] = 254


-----------------------------------------------------------------------------
(* C28 *)

\* the fee build_transaction requires of the counterparty, for a weight above 0
RequiredPeerFee(ctx) ==
    (ctx.feerate_sat_per_kw * 1000) \div PeerWeight(ctx)
      + (IF ctx.holder_is_initiator THEN 0
         ELSE (ctx.feerate_sat_per_kw * 1000) \div tx_common_fields_weight)

\* C28: build_transaction is total.  The tx_complete that builds the
\* transaction ends in NegotiationComplete or in NegotiationAborted, never in
\* an arithmetic failure, also at contribution weight 0; and when the
\* counterparty's outputs exceed its inputs its fee counts as 0, so with a
\* required fee above 0 the result is InsufficientFees.
C28_Claim ==
    [][Finalizes =>
          /\ state_machine'.tag \in {"NegotiationComplete", "NegotiationAborted"}
          /\ ( /\ ReachesFeeCheck
               /\ PeerWeight(state_machine.ctx) > 0
               /\ SatLt(PeerInputValue(state_machine.ctx), PeerOutputValue(state_machine.ctx))
               /\ RequiredPeerFee(state_machine.ctx) > 0 )
             => state_machine' = NegotiationAborted("InsufficientFees")]_vars


-----------------------------------------------------------------------------
(* C29 *)

\* C29: no double spend inside the shared transaction.  After any sequence of
\* send and receive events that does not abort, no two entries of inputs,
\* whoever added them, have the same previous outpoint.
C29_Claim ==
    HasContext(state_machine) =>
        \A s, t \in DOMAIN state_machine.ctx.inputs :
            s # t => state_machine.ctx.inputs[s].previous_output
                        # state_machine.ctx.inputs[t].previous_output


-----------------------------------------------------------------------------
(* SpecPeers: an initiator and a non-initiator constructor exchange the     *)
(* messages their public calls return, over a reliable in-order channel.    *)
(* The variables of Spec hold the initiator, `peer` the non-initiator.      *)

\* the message a call returned, as it goes on the wire
MessageOf(g) ==
    CASE g.ret = "TxAddInput" ->
            [type |-> "TxAddInput",
             body |-> [serial_id |-> g.serial_id, prevtx |-> DummyPrevTx,
                       prevtx_out |-> 0, sequence |-> ENABLE_RBF_NO_LOCKTIME]]
      [] g.ret = "TxAddOutput" ->
            [type |-> "TxAddOutput",
             body |-> [serial_id |-> g.serial_id,
                       sats |-> g.state_machine.ctx.outputs[g.serial_id].value,
                       script |-> g.state_machine.ctx.outputs[g.serial_id].script_pubkey]]
      [] g.ret = "TxComplete" -> [type |-> "TxComplete", body |-> <<>>]

\* Ok(message) / Ok(Some(message)) puts one message on the wire, anything
\* else nothing
Returned(g) ==
    IF g.ret \in {"TxAddInput", "TxAddOutput", "TxComplete"} THEN <<MessageOf(g)>> ELSE <<>>

\* the receive event a message on the wire raises
ReceiveEvent(msg) ==
    CASE msg.type = "TxAddInput" -> "receive_tx_add_input"
      [] msg.type = "TxAddOutput" -> "receive_tx_add_output"
      [] msg.type = "TxComplete" -> "receive_tx_complete"

\* the public receive call of constructor c that matches msg: the set of its
\* outcomes (the constructor's fields after the call and what it returned)
PublicReceive(c, msg, confirmed, rand) ==
    IF msg.type = "TxComplete"
    THEN UNION {
            IF result.kind = "Ok" /\ result.val.tag = "RemoteTxComplete"
            THEN generate_message_send(result.val, c.inputs_to_contribute,
                                       c.outputs_to_contribute, rand, c.is_initiator)
            ELSE {Sent(result, c.inputs_to_contribute, c.outputs_to_contribute,
                       "None", "receive_tx_complete", 0)}
            : result \in StateMachine_receive_tx_complete(c.state_machine)}
    ELSE LET result ==
                IF msg.type = "TxAddInput"
                THEN StateMachine_receive_tx_add_input(c.state_machine, msg.body, confirmed)
                ELSE StateMachine_receive_tx_add_output(c.state_machine, msg.body)
         IN  IF result.kind = "Ok"
             THEN generate_message_send(result.val, c.inputs_to_contribute,
                                        c.outputs_to_contribute, rand, c.is_initiator)
             ELSE {Sent(result, c.inputs_to_contribute, c.outputs_to_contribute,
                        "Err", ReceiveEvent(msg), msg.body.serial_id)}

Constructor(sm, ins, outs, initiator, returned) ==
    [state_machine |-> sm, inputs_to_contribute |-> ins, outputs_to_contribute |-> outs,
     is_initiator |-> initiator, ret |-> returned]

\* both nodes call new with the negotiated parameters and their own pending lists
InitPeers ==
    \E feerate \in Feerates, confirm \in BOOLEAN,
       ins \in SeqsUpTo(PendingInputs, MaxPending),
       outs \in SeqsUpTo(PendingOutputs, MaxPending),
       peer_ins \in SeqsUpTo(PendingInputs, MaxPending),
       peer_outs \in SeqsUpTo(PendingOutputs, MaxPending), rand \in RandVals :
      \E n \in New(feerate, confirm, TRUE, ins, outs, rand),
         p \in New(feerate, confirm, FALSE, peer_ins, peer_outs, rand) :
        /\ state_machine = n.state_machine
        /\ inputs_to_contribute = n.inputs_to_contribute
        /\ outputs_to_contribute = n.outputs_to_contribute
        /\ is_initiator = TRUE
        /\ origin = EmptyOrigin
        /\ last_event = n.event
        /\ prev_event = "none"
        /\ last_from = "none"
        /\ ret = n.ret
        /\ steps = 0
        /\ mirror = Indeterminate
        /\ rand_bytes = <<>>
        /\ peer = Constructor(p.state_machine, p.inputs_to_contribute,
                              p.outputs_to_contribute, FALSE, p.ret)
        /\ in_flight = [to_peer |-> Returned(n), to_holder |-> <<>>]

\* no call is made on a constructor whose thread panicked
Alive(c) == c.ret # "Panic" /\ c.state_machine.tag # "Indeterminate"

\* the initiator takes the next message off the wire and makes the matching call
InitiatorReceives ==
    /\ in_flight.to_holder # <<>>
    /\ Alive(Constructor(state_machine, inputs_to_contribute, outputs_to_contribute,
                         is_initiator, ret))
    /\ \E confirmed \in BOOLEAN, rand \in RandVals :
         \E g \in PublicReceive(Constructor(state_machine, inputs_to_contribute,
                                            outputs_to_contribute, is_initiator, ret),
                                Head(in_flight.to_holder), confirmed, rand) :
            /\ state_machine' = g.state_machine
            /\ inputs_to_contribute' = g.inputs_to_contribute
            /\ outputs_to_contribute' = g.outputs_to_contribute
            /\ ret' = g.ret
            /\ last_event' = g.event
            /\ prev_event' = IF g.event = ReceiveEvent(Head(in_flight.to_holder))
                              THEN last_event
                              ELSE ReceiveEvent(Head(in_flight.to_holder))
            /\ last_from' = state_machine.tag
            /\ in_flight' = [to_holder |-> Tail(in_flight.to_holder),
                             to_peer |-> in_flight.to_peer \o Returned(g)]
    /\ steps' = steps + 1
    /\ UNCHANGED <<is_initiator, origin, mirror, rand_bytes, peer>>

\* the non-initiator takes the next message off the wire and makes the matching call
NonInitiatorReceives ==
    /\ in_flight.to_peer # <<>>
    /\ Alive(peer)
    /\ \E confirmed \in BOOLEAN, rand \in RandVals :
         \E g \in PublicReceive(peer, Head(in_flight.to_peer), confirmed, rand) :
            /\ peer' = Constructor(g.state_machine, g.inputs_to_contribute,
                                   g.outputs_to_contribute, FALSE, g.ret)
            /\ in_flight' = [to_peer |-> Tail(in_flight.to_peer),
                             to_holder |-> in_flight.to_holder \o Returned(g)]
    /\ steps' = steps + 1
    /\ UNCHANGED <<state_machine, inputs_to_contribute, outputs_to_contribute, is_initiator,
                   origin, last_event, prev_event, last_from, ret, mirror, rand_bytes>>

NextPeers ==
    \/ InitiatorReceives
    \/ NonInitiatorReceives

\* a message on the wire is delivered, and the receiver makes its call
SpecPeers ==
    /\ InitPeers
    /\ [][NextPeers]_vars
    /\ WF_vars(InitiatorReceives)
    /\ WF_vars(NonInitiatorReceives)

-----------------------------------------------------------------------------
(* C30 *)

Terminal(sm) == sm.tag \in {"NegotiationComplete", "NegotiationAborted"}

\* C30: two-peer termination.  When an initiator constructor and a
\* non-initiator constructor exchange exactly the messages their public
\* calls return over a reliable in-order channel, eventually both are in a
\* terminal state (NegotiationComplete or NegotiationAborted).
C30_Claim ==
    (ret # "Panic") => <>(Terminal(state_machine) /\ Terminal(peer.state_machine))

====
